---- MODULE Spec2Model ----
(***************************************************************************)
(* Longitudinal decision core of chriscarlo/frogpilot:                     *)
(*   - LongitudinalMpc  (selfdrive/controls/lib/longitudinal_mpc_lib/      *)
(*                       long_mpc.py)                                      *)
(*   - FrogPilotVCruise (selfdrive/frogpilot/controls/lib/                 *)
(*                       frogpilot_vcruise.py)                             *)
(*                                                                         *)
(* Fixed-point conventions.  The code computes in IEEE doubles; the model  *)
(* computes in scaled integers and rounds with \div (floor):               *)
(*   MPC:     positions cm, speeds cm/s, accelerations cm/s^2,             *)
(*            horizon times in 1/360 s (T_IDXS[i] = 25*i*i exactly),       *)
(*            follow time in 1/100 s, wall clock in ticks of DT_MDL.       *)
(*   VCruise: speeds in 1/400 m/s, distances in 1/8000 m                   *)
(*            (= 1/400 m/s * DT_MDL), timers in ticks of DT_MDL.           *)
(***************************************************************************)
EXTENDS Integers, Sequences, FiniteSets, TLC

VARIABLES
  \* ---- LongitudinalMpc fields ----
  mode,                 \* self.mode, fixed by the constructor
  x_sol,                \* self.x_sol   [0..N -> <<x, v, a>>]
  u_sol,                \* self.u_sol   [0..N-1 -> j]
  v_solution,           \* self.v_solution
  a_solution,           \* self.a_solution
  j_solution,           \* self.j_solution
  prev_a,               \* self.prev_a
  params,               \* self.params  [0..N -> <<min_a, max_a, x_obs, prev_a, t_follow, danger>>]
  x0,                   \* self.x0      <<x, v, a>>
  solution_status,      \* self.solution_status
  last_cloudlog_t,      \* self.last_cloudlog_t
  crash_cnt,            \* self.crash_cnt
  status,               \* self.status
  source,               \* self.source
  accel_limits,         \* <<self.cruise_min_a, self.max_a>>, or <<>> before set_accel_limits
  jerk_factors,         \* <<acceleration_jerk_factor, danger_jerk_factor, speed_jerk_factor>> in 1/10
  base_cost_weights,    \* self.base_cost_weights
  \* ---- the injected solver's own state ----
  solver_x,             \* the stage state guesses of the solver
  solver_p,             \* the stage parameters handed to the solver
  solver_cost,          \* the stage costs handed to the solver
  \* ---- environment and observation ----
  now,                  \* time.monotonic(), in ticks of DT_MDL
  warnings,             \* times of the last two "Long MPC reset" warnings (newest first)
  solve_ret,            \* what solver.solve() returned in the latest run()
  obstacles,            \* x_obstacles of the latest update(): [0..N -> sequence of candidates]
  last_call,            \* the entry point that ran last
  shaping,              \* what the latest _apply_dynamic_costs was given (lead_xv) and
                        \* read of self: x_sol, base_cost_weights, acceleration_jerk_factor
  solved_cost,          \* the stage costs the solver held when solve() was last invoked
  fcw_run,              \* consecutive update() ticks, the latest included, on which the
                        \* forward-collision condition held
  \* ---- FrogPilotVCruise ----
  forcing_stop,               \* self.forcing_stop
  override_force_stop,        \* self.override_force_stop
  override_slc,               \* self.override_slc
  speed_limit_changed,        \* self.speed_limit_changed
  force_stop_timer,           \* self.force_stop_timer, in ticks
  override_force_stop_timer,  \* self.override_force_stop_timer, in ticks
  speed_limit_timer,          \* self.speed_limit_timer, in ticks
  mtsc_target,                \* self.mtsc_target
  slc_target,                 \* self.slc_target
  vtsc_target,                \* self.vtsc_target
  overridden_speed,           \* self.overridden_speed
  tracked_model_length,       \* self.tracked_model_length
  vtsc_target_prev,           \* self.vtsc_target_prev
  current_decel,              \* self.current_decel
  SLCConfirmed,               \* params_memory "SLCConfirmed"
  \* ---- observation of the latest FrogPilotVCruise.update ----
  vc_in,                      \* its arguments
  vc_ret,                     \* the speed it returned
  branch,                     \* "standstill", "stop" or "targets"; "raised"; "none" before the first
  raised,                     \* the exception that ended it, "" if none
  slc_resolution,             \* how the speed limit step ended
  trigger_held,               \* consecutive ticks on which the stop trigger held
  override_cond_age,          \* ticks since an override condition held, -1 outside a suppression
  pending_before,             \* speed_limit_timer as the latest update() found it
  vc_ticks,                   \* calls of update() so far, counted up to MaxVisionTicks
  \* ---- module-level functions ----
  probe                       \* the latest call of a module-level function: arguments and result

mpc_vars == <<mode, x_sol, u_sol, v_solution, a_solution, j_solution, prev_a, params,
              x0, solution_status, last_cloudlog_t, crash_cnt, status, source,
              accel_limits, jerk_factors, base_cost_weights, solver_x, solver_p,
              solver_cost, now, warnings, solve_ret, obstacles, last_call, fcw_run,
              shaping, solved_cost>>

vc_vars == <<forcing_stop, override_force_stop, override_slc, speed_limit_changed,
             force_stop_timer, override_force_stop_timer, speed_limit_timer,
             mtsc_target, slc_target, vtsc_target, overridden_speed,
             tracked_model_length, vtsc_target_prev, current_decel, SLCConfirmed,
             vc_in, vc_ret, branch, raised, slc_resolution, trigger_held,
             override_cond_age, pending_before, vc_ticks>>

fn_vars == <<probe>>

vars == <<mpc_vars, vc_vars, fn_vars>>

----------------------------------------------------------------------------
\* Program constants of long_mpc.py

N == 12
SOURCES == <<"lead0", "lead1", "cruise", "e2e">>

\* cost constants, in 1/10
X_EGO_OBSTACLE_COST == 30
J_EGO_COST == 120
A_CHANGE_COST == 3000
LIMIT_COST == 10000000

CRASH_DISTANCE == 25          \* 0.25 m
LEAD_DANGER_FACTOR == 75      \* 0.75, in 1/100
LEAD_ACCEL_TAU == 150         \* 1.5, in 1/100
COMFORT_BRAKE == 250          \* 2.5 m/s^2
STOP_DISTANCE == 600          \* 6.0 m
ACCEL_MIN == -350             \* openpilot.selfdrive.car.interfaces.ACCEL_MIN = -3.5 m/s^2
MPC_DT == 18                  \* self.dt = DT_MDL = 0.05 s, in 1/360 s
LOG_PERIOD == 100             \* the 5.0 s of run(), in ticks of DT_MDL
SPEED_JUMP == 200             \* the 2. m/s of set_cur_state
T_FOLLOW_STANDARD == 145      \* get_T_FOLLOW() = 1.45 s

\* Bounds of the model
MaxTicks == 2                 \* update() calls explored after each start time

\* T_IDXS[i] = index_function(i, max_val=MAX_T, max_idx=N) = 10*(i/N)^2 s = 25*i*i/360 s
T_IDXS(i) == 25 * i * i

\* T_DIFFS = np.diff(T_IDXS, prepend=[0.])
T_DIFFS(i) == IF i = 0 THEN 0 ELSE T_IDXS(i) - T_IDXS(i - 1)

\* FCW_IDXS = T_IDXS < 5.0
FCW_IDXS == {i \in 0..N : T_IDXS(i) < 5 * 360}

Stages == 0..N
Controls == 0..(N - 1)
Max(a, b) == IF a >= b THEN a ELSE b
Min(a, b) == IF a <= b THEN a ELSE b
\* np.clip(x, lo, hi) = minimum(maximum(x, lo), hi)
Clip(x, lo, hi) == Min(Max(x, lo), hi)

\* numpy_fast.clip(x, lo, hi) = max(lo, min(hi, x)): lo wins when lo > hi
clip(x, lo, hi) == Max(lo, Min(hi, x))

Abs(x) == IF x < 0 THEN -x ELSE x

\* An array computed once (TLC would otherwise re-evaluate a function's body at
\* every application); Evaluated(f) = f.
Evaluated(f) == f @@ <<>>

ZeroX == <<0, 0, 0>>
ZeroStages == [i \in Stages |-> 0]
ZeroControls == [i \in Controls |-> 0]
ZeroStates == [i \in Stages |-> ZeroX]
ZeroParams == [i \in Stages |-> <<0, 0, 0, 0, 0, 0>>]

\* np.cumsum(f) over the horizon, as a tuple: CumSums(f)[i + 1] = np.cumsum(f)[i]
RECURSIVE Prefix(_, _)
Prefix(f, i) ==
  IF i = 0 THEN <<f[0]>>
  ELSE LET p == Prefix(f, i - 1) IN Append(p, p[i] + f[i])

CumSums(f) == Prefix(f, N)

\* np.min over a sequence of candidates, and np.argmin (first index of the minimum, 1-based)
RECURSIVE SeqMin(_)
SeqMin(s) == IF Len(s) = 1 THEN s[1] ELSE Min(s[1], SeqMin(Tail(s)))

ArgMin(s) == CHOOSE k \in 1..Len(s) : s[k] = SeqMin(s) /\ \A m \in 1..(k - 1) : s[m] # s[k]

----------------------------------------------------------------------------
\* SafetyDistanceModel

get_stopped_equivalence_factor(v_lead) == (v_lead * v_lead) \div (2 * COMFORT_BRAKE)

get_safe_obstacle_distance(v_ego, t_follow) ==
  (v_ego * v_ego) \div (2 * COMFORT_BRAKE) + (t_follow * v_ego) \div 100 + STOP_DISTANCE

\* the lead's own stopping distance left out
desired_follow_distance_nolead(v_ego, v_lead, t_follow) ==
  get_safe_obstacle_distance(v_ego, t_follow)

desired_follow_distance(v_ego, v_lead, t_follow) ==
  get_safe_obstacle_distance(v_ego, t_follow) - get_stopped_equivalence_factor(v_lead)

----------------------------------------------------------------------------
\* Cost shaping. Factors are in 1/1000, base costs in 1/10, so that a shaped cost
\* (base cost times factor) is in 1/10000.

LOW_JERK_COST == 500             \* low_jerk_cost = 0.5, in 1/1000 like every jerk cost here
BASE_JERK_GAIN == 12              \* base_j_cost = 12.0 * acceleration_jerk_factor
DISTANCE_SMOOTHING == 400         \* distance_smoothing = 4.0 m
LOGISTIC_K_DIST == 5              \* logistic_k_dist = 5.0
LOGISTIC_K_SPEED == 2             \* logistic_k_speed = 2.0 per m/s
MIN_SPEED_FOR_CLOSING == 30       \* min_speed_for_closing = 0.3 m/s
TAPER_START == 1200               \* taper factor 1.2 at t = 0
TAPER_END_T == 720                \* ... down to 1.0 at t = 2 s

\* 1000 / (1 + exp(-z)) for z = -8 .. 8, interpolated linearly in between; z in 1/1000
LogisticTable ==
  <<0, 1, 2, 7, 18, 47, 119, 269, 500, 731, 881, 953, 982, 993, 998, 999, 1000>>

logistic(z) ==
  IF z <= -8000 THEN 0
  ELSE IF z >= 8000 THEN 1000
  ELSE LET k == (z + 8000) \div 1000
           lo == LogisticTable[k + 1]
           hi == LogisticTable[k + 2]
       IN  lo + ((hi - lo) * ((z + 8000) % 1000)) \div 1000

\* a / b rounded down, for b of either sign; a zero b gives the infinity of a's sign
\* as far as logistic() can tell (0 / 0, a NaN in the code, is kept out of the inputs)
Ratio1000(a, b) ==
  IF b > 0 THEN (a * 1000) \div b
  ELSE IF b < 0 THEN ((-a) * 1000) \div (-b)
  ELSE IF a > 0 THEN 8000 ELSE -8000

\* base_j_cost of _apply_dynamic_costs; the multiplier is in 1/1000 and a multiplier
\* of 0 counts as 1.0
base_j_cost(acceleration_jerk_factor) ==
  BASE_JERK_GAIN * (IF acceleration_jerk_factor = 0 THEN 1000 ELSE acceleration_jerk_factor)

\* the taper of stage i: 1.2 at t = 0, 1.0 from t = 2 s on
TaperFactor(i) ==
  IF T_IDXS(i) <= TAPER_END_T
  THEN TAPER_START - ((TAPER_START - 1000) * T_IDXS(i)) \div TAPER_END_T
  ELSE 1000

get_smooth_dynamic_j_ego_cost_array(x_obstacle, x_ego, v_ego, v_lead, t_follow, base_jerk_cost, time_taper, speed_factor) ==
  [i \in Stages |->
    LET desired_dist == desired_follow_distance(v_ego[i], v_lead[i], t_follow[i])
        current_dist == x_obstacle[i] - x_ego[i]
        dist_ratio == Ratio1000(desired_dist - current_dist, desired_dist + DISTANCE_SMOOTHING)
        dist_logistic == logistic(LOGISTIC_K_DIST * dist_ratio)
        closing_shifted == (v_ego[i] - v_lead[i]) - MIN_SPEED_FOR_CLOSING
        speed_logistic == logistic(LOGISTIC_K_SPEED * 10 * closing_shifted)
        combined_factor == (dist_logistic * speed_logistic) \div 1000
        jerk_cost == LOW_JERK_COST + (combined_factor * (base_jerk_cost - LOW_JERK_COST)) \div 1000
        tapered == IF time_taper THEN (jerk_cost * TaperFactor(i)) \div 1000 ELSE jerk_cost
    IN  (tapered * speed_factor) \div 1000]

APPROACH_MARGIN == 500           \* approach_margin = 5.0 m, as _apply_dynamic_costs passes it
MAX_APPROACH_MULT == 1500         \* max_approach_mult = 1.5
MIN_PENALTY == 5000               \* min_penalty = 5.0, in 1/1000
SAFE_UPPER == 10000000            \* safe_upper = 10000.0, in 1/1000
PENALTY_MARGIN == 200             \* dist_margin = 2.0 m, speed_margin = 2.0 m/s
COMBINED_CAP == 1300              \* np.clip(combined_factor, 1.0, 1.3)
BLENDED_LEAD_PENALTY == 50000     \* the blended mode's constraint cost 50.0, in 1/1000

soft_approach_distance_factor(x_obstacle_i, x_ego_i, v_ego_i, v_lead_i, t_follow_i) ==
  LET desired_dist == desired_follow_distance(v_ego_i, v_lead_i, t_follow_i)
      actual_gap == x_obstacle_i - x_ego_i
      gap_deficit == desired_dist - actual_gap
      z == (gap_deficit * 1000) \div APPROACH_MARGIN
      z_scaled == z - 500
  IN  IF gap_deficit <= 0 THEN 1000
      ELSE 1000 + ((MAX_APPROACH_MULT - 1000) * logistic(z_scaled)) \div 1000

\* the lead constraint penalty, in 1/1000
dynamic_lead_constraint_weight(x_obstacle_i, x_ego_i, v_ego_i, v_lead_i, t_follow_i) ==
  LET desired_dist == get_safe_obstacle_distance(v_ego_i, t_follow_i)
      actual_gap == x_obstacle_i - x_ego_i
      gap_error == desired_dist - actual_gap
      closing_speed == v_ego_i - v_lead_i
      z == (gap_error * 1000) \div PENALTY_MARGIN + (closing_speed * 1000) \div PENALTY_MARGIN
      z_scaled == (3 * (z - 500)) \div 2
      logistic_val == logistic(z_scaled)
  IN  MIN_PENALTY + (logistic_val * ((SAFE_UPPER - MIN_PENALTY) \div 1000))

\* np.interp(T_IDXS[i], [0.0, 1.0, 2.0], [1.0, 1.0, 0.3]), in 1/1000
AChangeTaper(i) ==
  IF T_IDXS(i) <= 360 THEN 1000
  ELSE IF T_IDXS(i) >= 720 THEN 300
  ELSE 1000 - (700 * (T_IDXS(i) - 360)) \div 360

PULLAWAY_CAP == 1300              \* min(1.3, pullaway_max_factor)
PULLAWAY_DIST_MARGIN == 500       \* pullaway_dist_margin = 5.0 m
PULLAWAY_SPEED_MARGIN == 200      \* pullaway_speed_margin = 2.0 m/s

\* the configured ceiling used as it is given
dynamic_lead_pullaway_distance_cost_uncapped(x_ego_i, v_ego_i, x_lead_i, v_lead_i, t_follow_i, base_cost, pullaway_max_factor) ==
  LET gap_excess == (x_lead_i - x_ego_i) - desired_follow_distance(v_ego_i, v_lead_i, t_follow_i)
      speed_diff == v_lead_i - v_ego_i
      z == Min((gap_excess * 1000) \div PULLAWAY_DIST_MARGIN,
               (speed_diff * 1000) \div PULLAWAY_SPEED_MARGIN)
      factor == Clip(1000 + (z * (pullaway_max_factor - 1000)) \div 1000, 1000,
                     pullaway_max_factor)
  IN  IF gap_excess <= 0 \/ speed_diff <= 0 THEN base_cost * 1000 ELSE base_cost * factor

dynamic_lead_pullaway_distance_cost(x_ego_i, v_ego_i, x_lead_i, v_lead_i, t_follow_i, base_cost, pullaway_max_factor) ==
  LET max_factor == Min(PULLAWAY_CAP, pullaway_max_factor)
      desired_dist == desired_follow_distance(v_ego_i, v_lead_i, t_follow_i)
      actual_gap == x_lead_i - x_ego_i
      gap_excess == actual_gap - desired_dist
      speed_diff == v_lead_i - v_ego_i
      z_dist == (gap_excess * 1000) \div PULLAWAY_DIST_MARGIN
      z_speed == (speed_diff * 1000) \div PULLAWAY_SPEED_MARGIN
      z == Min(z_dist, z_speed)
      factor == Clip(1000 + (z * (max_factor - 1000)) \div 1000, 1000, max_factor)
  IN  IF gap_excess <= 0 \/ speed_diff <= 0 THEN base_cost * 1000 ELSE base_cost * factor

----------------------------------------------------------------------------
\* LeadTracker

\* 1000 * exp(-a_lead_tau * T_IDXS[i]^2 / 2), tabulated for a_lead_tau = LEAD_ACCEL_TAU;
\* a_lead_tau = 0 gives no decay.
ExpDecay(a_lead_tau, i) ==
  IF a_lead_tau = 0 THEN 1000
  ELSE <<1000, 996, 944, 746, 396, 104, 9, 0, 0, 0, 0, 0, 0>>[i + 1]

extrapolate_lead(x_lead, v_lead, a_lead, a_lead_tau) ==
  LET a_lead_traj == Evaluated([i \in Stages |-> (a_lead * ExpDecay(a_lead_tau, i)) \div 1000])
      dv == CumSums([i \in Stages |-> T_DIFFS(i) * a_lead_traj[i]])
      v_lead_traj == Evaluated([i \in Stages |-> Clip(v_lead + dv[i + 1] \div 360, 0, 10000000)])
      dx == CumSums([i \in Stages |-> T_DIFFS(i) * v_lead_traj[i]])
      x_lead_traj == Evaluated([i \in Stages |-> x_lead + dx[i + 1] \div 360])
  IN  Evaluated([i \in Stages |-> <<x_lead_traj[i], v_lead_traj[i]>>])

\* an invalid lead taken as it is reported, without the placeholder
process_lead_unchecked(lead, v_ego) ==
  extrapolate_lead(clip(lead.dRel, 0, 10000000), clip(lead.vLead, 0, 10000000),
                   clip(lead.aLeadK, -1000, 500), lead.aLeadTau)

\* process_lead(lead): an invalid lead becomes a placeholder 50 m ahead at ego
\* speed + 10 m/s
process_lead(lead, v_ego) ==
  LET valid == lead.status
      x_lead == IF valid THEN lead.dRel ELSE 5000
      v_lead == IF valid THEN lead.vLead ELSE v_ego + 1000
      a_lead == IF valid THEN lead.aLeadK ELSE 0
      a_lead_tau == IF valid THEN lead.aLeadTau ELSE LEAD_ACCEL_TAU
      \* ((v_ego + v_lead)/2) * (v_ego - v_lead) / (-ACCEL_MIN * 2), in cm
      min_x_lead == ((v_ego + v_lead) * (v_ego - v_lead)) \div (2 * (-ACCEL_MIN) * 2)
  IN  extrapolate_lead(clip(x_lead, min_x_lead, 10000000),
                       clip(v_lead, 0, 10000000),
                       clip(a_lead, -1000, 500),
                       a_lead_tau)

----------------------------------------------------------------------------
\* LongitudinalMpc

\* set_weights: self.base_cost_weights per mode (costs in 1/10, jerk factors in 1/10)
set_weights_base(m, acceleration_jerk, prev_accel_constraint) ==
  IF m = "acc"
  THEN <<X_EGO_OBSTACLE_COST, 0, 0, 0,
         IF prev_accel_constraint THEN A_CHANGE_COST ELSE 0,
         (J_EGO_COST * acceleration_jerk) \div 10>>
  ELSE <<0, 1, 2, 50,
         IF prev_accel_constraint THEN 400 ELSE 0,
         (10 * acceleration_jerk) \div 10>>

\* set_weights() as reset() calls it: every argument at its default
DefaultJerkFactors == <<10, 10, 10>>

\* set_cost_weights(cost_weights, constraint_cost_weights): what every stage of the
\* solver holds afterwards. Of W the entries [0,0], [4,4] (in 1/10000) and [5,5]
\* (in 1/1000) are kept, of Zl the lead constraint's entry (in 1/1000).
set_cost_weights(m, cost_weights, danger_jerk) ==
  [i \in Controls |->
     [x_obstacle |-> cost_weights[1] * 1000,
      a_change |-> cost_weights[5] * AChangeTaper(i),
      j_ego |-> cost_weights[6] * 100,
      lead_penalty |-> IF m = "acc" THEN danger_jerk * 100 ELSE BLENDED_LEAD_PENALTY]]

\* _apply_dynamic_costs(lead_xv): the W and Zl it hands to every stage of the solver,
\* from the trajectory sol_x it finds in self.x_sol and from x_obstacle = params[:,2]
\* and t_follow = params[:,4] of this tick
DynamicCosts(sol_x, x_obstacle, t_follow, lead_xv, cost_weights, acceleration_jerk_factor) ==
  LET dyn_j_ego_array == Evaluated(get_smooth_dynamic_j_ego_cost_array(
                            x_obstacle, [i \in Stages |-> sol_x[i][1]],
                            [i \in Stages |-> sol_x[i][2]], [i \in Stages |-> lead_xv[i][2]],
                            t_follow, base_j_cost(acceleration_jerk_factor * 100), TRUE, 1000))
      dist_cost_base == cost_weights[1]
      a_change_cost == cost_weights[5]
  IN  Evaluated([i \in Controls |->
        LET x_ego_i == sol_x[i][1]
            v_ego_i == sol_x[i][2]
            x_lead_i == lead_xv[i][1]
            v_lead_i == lead_xv[i][2]
            t_follow_i == t_follow[i]
            pullaway_dist_cost == dynamic_lead_pullaway_distance_cost(
                                    x_ego_i, v_ego_i, x_lead_i, v_lead_i, t_follow_i,
                                    dist_cost_base, 2000)
            approach_factor == soft_approach_distance_factor(
                                 x_lead_i, x_ego_i, v_ego_i, v_lead_i, t_follow_i)
            combined_factor == (pullaway_dist_cost * approach_factor) \div 10000
            clamped_factor == Clip(combined_factor, 1000, COMBINED_CAP)
        IN  [x_obstacle |-> dist_cost_base * clamped_factor,
             a_change |-> a_change_cost * AChangeTaper(i),
             j_ego |-> dyn_j_ego_array[i],
             lead_penalty |-> dynamic_lead_constraint_weight(
                                x_obstacle[i], x_ego_i, v_ego_i, v_lead_i, t_follow_i)]])

\* update() running the solver before it shapes the costs: solve() sees the costs
\* the solver held before
CostsAtSolve_stale(held, pushed) == held

\* update(): _apply_dynamic_costs(...) comes before self.run(), so solve() sees the
\* costs just pushed
CostsAtSolve(held, pushed) == pushed

\* What a solver.solve() hands back through solver.get(i, 'x') / solver.get(i, 'u'):
\* the solver is injected, so the trajectory is the environment's choice.  The
\* family used here integrates a constant jerk j from the pinned initial state.
SolverTrajectory(init, j) ==
  LET a == Evaluated([i \in Stages |-> init[3] + (j * T_IDXS(i)) \div 360])
      dv == CumSums([i \in Stages |-> T_DIFFS(i) * a[i]])
      v == Evaluated([i \in Stages |-> init[2] + dv[i + 1] \div 360])
      dx == CumSums([i \in Stages |-> T_DIFFS(i) * v[i]])
      x == Evaluated([i \in Stages |-> init[1] + dx[i + 1] \div 360])
  IN  [x |-> Evaluated([i \in Stages |-> <<x[i], v[i], a[i]>>]),
       u |-> Evaluated([i \in Controls |-> j])]

\* np.interp(T_IDXS + self.dt, T_IDXS, a): T_IDXS[i] + dt lies in [T_IDXS[i], T_IDXS[i+1])
\* for every i < N (the shortest interval is 25/360 s > dt), and past the grid for i = N.
ShiftedAccel(a) ==
  Evaluated([i \in Stages |->
     IF i = N THEN a[N]
     ELSE a[i] + ((a[i + 1] - a[i]) * MPC_DT) \div (T_IDXS(i + 1) - T_IDXS(i))])

\* run(): the rate limit of the "Long MPC reset" warning
WarningDue(t, last_t) == t > last_t + LOG_PERIOD

\* run() without the call of reset() on a failed solve
RunResets_never(ret) == FALSE

\* run(): a nonzero status ends in self.reset()
RunResets(ret) == ret # 0

\* reset(): the value reset() gives last_cloudlog_t
ResetCloudlogT == 0

\* reset() leaving the initial condition as it was
ResetX0_kept == x0

\* reset(): self.x0 = np.zeros(X_DIM)
ResetX0 == ZeroX

\* reset() leaving the crash counter as it was
ResetCrashCnt_kept == crash_cnt

\* reset(): self.crash_cnt = 0.0
ResetCrashCnt == 0

\* reset(): the fields reset() assigns, for an MPC of mode m
ResetState(m) ==
  [ v_solution |-> ZeroStages,
    a_solution |-> ZeroStages,
    prev_a |-> ZeroStages,
    j_solution |-> ZeroControls,
    x_sol |-> ZeroStates,
    u_sol |-> ZeroControls,
    params |-> ZeroParams,
    solver_x |-> ZeroStates,
    last_cloudlog_t |-> ResetCloudlogT,
    status |-> FALSE,
    crash_cnt |-> ResetCrashCnt,
    solution_status |-> 0,
    x0 |-> ResetX0,
    jerk_factors |-> DefaultJerkFactors,
    base_cost_weights |-> set_weights_base(m, DefaultJerkFactors[1], TRUE),
    solver_cost |-> set_cost_weights(m, set_weights_base(m, DefaultJerkFactors[1], TRUE),
                                     DefaultJerkFactors[2]) ]

\* update(): the obstacle candidates of every stage, in the column order of
\* np.column_stack (lead0, lead1 and, in ACC mode, the cruise obstacle)
ObstacleCandidates(m, lead_xv_0, lead_xv_1, v_ego, v_cruise, t_follow, limits) ==
  LET lead_0_obstacle == Evaluated([i \in Stages |->
                            lead_xv_0[i][1] + get_stopped_equivalence_factor(lead_xv_0[i][2])])
      lead_1_obstacle == Evaluated([i \in Stages |->
                            lead_xv_1[i][1] + get_stopped_equivalence_factor(lead_xv_1[i][2])])
      \* v_ego + T_IDXS * a * 1.05
      v_lower == Evaluated([i \in Stages |-> v_ego + (T_IDXS(i) * limits[1] * 105) \div 36000])
      v_upper == Evaluated([i \in Stages |-> v_ego + (T_IDXS(i) * limits[2] * 105) \div 36000])
      v_cruise_clipped == Evaluated([i \in Stages |-> Clip(v_cruise, v_lower[i], v_upper[i])])
      dx == CumSums([i \in Stages |-> T_DIFFS(i) * v_cruise_clipped[i]])
      cruise_obstacle == Evaluated([i \in Stages |->
                            dx[i + 1] \div 360
                            + get_safe_obstacle_distance(v_cruise_clipped[i], t_follow)])
  IN  Evaluated([i \in Stages |->
         IF m = "acc"
         THEN <<lead_0_obstacle[i], lead_1_obstacle[i], cruise_obstacle[i]>>
         ELSE <<lead_0_obstacle[i], lead_1_obstacle[i]>>])

\* the first candidate taken instead of the minimum
MinObstacle_first(cands) == cands[1]

\* update(): self.params[:,2] = np.min(x_obstacles, axis=1)
MinObstacle(cands) == SeqMin(cands)

\* update(): self.source before the solve.  ACC: SOURCES[np.argmin(x_obstacles[0])].
\* Blended: 'e2e' if the model path is nearer than the cruise path at index 1; the
\* reference plan is a constant speed v_ref from x[0] = 0.
SourceBeforeSolve(m, x_obstacles, v_ego, v_cruise, v_ref) ==
  IF m = "acc"
  THEN SOURCES[ArgMin(x_obstacles[0])]
  ELSE LET x_1 == (((v_ref + v_ref) \div 2) * (T_IDXS(1) - T_IDXS(0))) \div 360
           cruise_target_1 == (T_IDXS(1) * Clip(v_cruise, v_ego - 200, 100000)) \div 360
       IN  IF x_1 < cruise_target_1 THEN "e2e" ELSE "cruise"

\* the relabelling to lead1 without the comparison of the two leads
SourceAfterSolve_overlapping(m, src, x_obstacles, sol_x, t_follow) ==
  LET violates(k) == \E i \in Stages :
                       (x_obstacles[i][k] - get_safe_obstacle_distance(sol_x[i][2], t_follow))
                         - sol_x[i][1] < 0
  IN  IF m # "blended" THEN src
      ELSE IF violates(2) THEN "lead1"
      ELSE IF violates(1) THEN "lead0"
      ELSE src

\* update(): the blended-mode relabelling after the solve
SourceAfterSolve(m, src, x_obstacles, sol_x, t_follow) ==
  LET violates(k) == \E i \in Stages :
                       (x_obstacles[i][k] - get_safe_obstacle_distance(sol_x[i][2], t_follow))
                         - sol_x[i][1] < 0
      s0 == IF violates(1) THEN "lead0" ELSE src
  IN  IF m # "blended" THEN src
      ELSE IF violates(2) /\ (x_obstacles[0][2] - x_obstacles[0][1]) # 0 THEN "lead1"
      ELSE s0

\* update(): the forward-collision condition
FcwCondition(lead_xv_0, sol_x, lead_probability) ==
  /\ \E i \in FCW_IDXS : lead_xv_0[i][1] - sol_x[i][1] < CRASH_DISTANCE
  /\ lead_probability > 90

----------------------------------------------------------------------------
\* Inputs explored (cm, cm/s, cm/s^2; probabilities in 1/100)

NoLead == [status |-> FALSE, dRel |-> 0, vLead |-> 0, aLeadK |-> 0, aLeadTau |-> 0,
           prob |-> 0, modelProb |-> 0]
NearLead == [status |-> TRUE, dRel |-> 10, vLead |-> 0, aLeadK |-> 0, aLeadTau |-> 0,
             prob |-> 95, modelProb |-> 50]
BrakingLead == [status |-> TRUE, dRel |-> 4000, vLead |-> 1500, aLeadK |-> -200,
                aLeadTau |-> LEAD_ACCEL_TAU, prob |-> 99, modelProb |-> 99]
\* <<lead_one, lead_two>>
LeadPairs == {<<NoLead, NoLead>>, <<BrakingLead, NearLead>>, <<NearLead, NearLead>>}
\* <<v_cruise, speed of the reference plan>>
Plans == {<<1000, 4000>>, <<3000, 500>>}
TFollows == {T_FOLLOW_STANDARD}
\* <<v, a>> of set_cur_state
EgoStates == {<<1000, 0>>, <<1200, -100>>}
AccelLimits == {<<-120, 120>>}
\* <<jerk factors, prev_accel_constraint>> of set_weights
WeightConfigs == {<<<<5, 5, 5>>, FALSE>>}
\* <<status returned by solve(), jerk of the trajectory it leaves>>
SolverResults == {<<0, 50>>, <<2, 50>>}
StartTimes == {2 * LOG_PERIOD}

\* The initial conditions set_cur_state() and reset() can leave in x0
InitialConditions == {ZeroX} \cup {<<0, e[1], e[2]>> : e \in EgoStates}

\* process_lead(lead, v_ego) of every lead and ego speed explored, computed once
LeadTrajectories ==
  Evaluated([lead \in {p[1] : p \in LeadPairs} \cup {p[2] : p \in LeadPairs} |->
     Evaluated([v_ego \in {x[2] : x \in InitialConditions} |-> process_lead(lead, v_ego)])])

\* x_obstacles of update() for every mode, pair of leads, ego speed, requested speed,
\* follow time and pair of acceleration limits explored, computed once
ObstacleTable ==
  Evaluated([m \in {"acc", "blended"} |-> Evaluated([leads \in LeadPairs |->
     Evaluated([v_ego \in {x[2] : x \in InitialConditions} |->
        Evaluated([v_cruise \in {p[1] : p \in Plans} |->
           Evaluated([t_follow \in TFollows |-> Evaluated([limits \in AccelLimits |->
              ObstacleCandidates(m, LeadTrajectories[leads[1]][v_ego],
                                 LeadTrajectories[leads[2]][v_ego], v_ego, v_cruise,
                                 t_follow, limits)])])])])])])

\* The trajectory the solver leaves from every initial condition, for every jerk
\* explored, computed once
SolverTrajectories ==
  Evaluated([init \in InitialConditions |->
     Evaluated([j \in {r[2] : r \in SolverResults} |-> SolverTrajectory(init, j)])])

\* What self.x_sol can hold: zeros, or a trajectory the solver left
EgoTrajectories ==
  {ZeroStates} \cup {SolverTrajectories[init][r[2]].x : init \in InitialConditions,
                                                         r \in SolverResults}

\* <<jerk factors, prev_accel_constraint>> set_weights can have been called with
WeightsInForce == WeightConfigs \cup {<<DefaultJerkFactors, TRUE>>}

\* The costs _apply_dynamic_costs pushes, for every trajectory it can find in x_sol
\* and every input of update() explored, computed once
DynamicCostTable ==
  Evaluated([sol_x \in EgoTrajectories |-> Evaluated([m \in {"acc", "blended"} |->
     Evaluated([leads \in LeadPairs |-> Evaluated([v_ego \in {x[2] : x \in InitialConditions} |->
        Evaluated([v_cruise \in {p[1] : p \in Plans} |-> Evaluated([t_follow \in TFollows |->
           Evaluated([limits \in AccelLimits |->
              Evaluated([w \in {<<set_weights_base(m, c[1][1], c[2]), c[1][1]>> : c \in WeightsInForce} |->
                 DynamicCosts(sol_x,
                              [i \in Stages |->
                                 MinObstacle(ObstacleTable[m][leads][v_ego][v_cruise][t_follow][limits][i])],
                              [i \in Stages |-> t_follow],
                              LeadTrajectories[leads[1]][v_ego], w[1], w[2])])])])])])])])])

----------------------------------------------------------------------------
\* Actions of the MPC

\* __init__(mode): construct the solver, reset(), source = SOURCES[2]
MpcInit ==
  /\ mode \in {"acc", "blended"}
  /\ x_sol = ZeroStates /\ u_sol = ZeroControls
  /\ v_solution = ZeroStages /\ a_solution = ZeroStages /\ j_solution = ZeroControls
  /\ prev_a = ZeroStages /\ params = ZeroParams /\ x0 = ZeroX
  /\ solution_status = 0 /\ last_cloudlog_t = 0
  /\ crash_cnt = 0 /\ status = FALSE
  /\ source = SOURCES[3]
  /\ accel_limits = <<>>
  /\ jerk_factors = DefaultJerkFactors
  /\ base_cost_weights = set_weights_base(mode, DefaultJerkFactors[1], TRUE)
  /\ solver_x = ZeroStates
  \* ocp.parameter_values
  /\ solver_p = [i \in Stages |-> <<-120, 120, 0, 0, T_FOLLOW_STANDARD, LEAD_DANGER_FACTOR>>]
  /\ now \in StartTimes
  /\ warnings = <<>>
  /\ solve_ret = 0
  /\ obstacles = [i \in Stages |-> <<>>]
  /\ last_call = "init"
  /\ fcw_run = 0
  /\ solver_cost = ResetState(mode).solver_cost
  \* before the first update(): nothing read, the costs of the constructor
  /\ shaping = [x_sol |-> ZeroStates, lead_xv |-> [i \in Stages |-> <<0, 0>>],
                base_cost_weights |-> ResetState(mode).base_cost_weights,
                acceleration_jerk_factor |-> DefaultJerkFactors[1]]
  /\ solved_cost = ResetState(mode).solver_cost

\* reset()
Reset ==
  LET R == ResetState(mode) IN
  /\ x_sol' = R.x_sol /\ u_sol' = R.u_sol
  /\ v_solution' = R.v_solution /\ a_solution' = R.a_solution /\ j_solution' = R.j_solution
  /\ prev_a' = R.prev_a /\ params' = R.params /\ x0' = R.x0
  /\ solution_status' = R.solution_status /\ last_cloudlog_t' = R.last_cloudlog_t
  /\ crash_cnt' = R.crash_cnt /\ status' = R.status
  /\ jerk_factors' = R.jerk_factors /\ base_cost_weights' = R.base_cost_weights
  /\ solver_x' = R.solver_x /\ solver_cost' = R.solver_cost
  /\ last_call' = "reset"
  /\ UNCHANGED <<vc_vars, fn_vars>>
  /\ UNCHANGED <<mode, source, accel_limits, solver_p, now, warnings, solve_ret, obstacles,
                 fcw_run, shaping, solved_cost>>

\* set_weights(acceleration_jerk, danger_jerk, speed_jerk, prev_accel_constraint)
SetWeights ==
  \E w \in WeightConfigs :
    /\ jerk_factors' = w[1]
    /\ base_cost_weights' = set_weights_base(mode, w[1][1], w[2])
    /\ solver_cost' = set_cost_weights(mode, set_weights_base(mode, w[1][1], w[2]), w[1][2])
    /\ last_call' = "set"
    /\ UNCHANGED <<vc_vars, fn_vars>>
    /\ UNCHANGED <<mode, x_sol, u_sol, v_solution, a_solution, j_solution, prev_a, params,
                   x0, solution_status, last_cloudlog_t, crash_cnt, status, source,
                   accel_limits, solver_x, solver_p, now, warnings, solve_ret, obstacles,
                   fcw_run, shaping, solved_cost>>

\* set_accel_limits(min_a, max_a)
SetAccelLimits ==
  \E lim \in AccelLimits :
    /\ accel_limits' = lim
    /\ last_call' = "set"
    /\ UNCHANGED <<vc_vars, fn_vars>>
    /\ UNCHANGED <<mode, x_sol, u_sol, v_solution, a_solution, j_solution, prev_a, params,
                   x0, solution_status, last_cloudlog_t, crash_cnt, status, source,
                   jerk_factors, base_cost_weights, solver_x, solver_p, now, warnings,
                   solve_ret, obstacles, fcw_run, solver_cost, shaping,
                   solved_cost>>

\* the stages seeded from a speed change of 2 m/s on
SeedsStages_from(v_prev, v) == Abs(v_prev - v) >= SPEED_JUMP

\* set_cur_state(v, a): the stages seeded with the new initial condition
SeedsStages(v_prev, v) == Abs(v_prev - v) > SPEED_JUMP

SetCurState ==
  \E e \in EgoStates :
    LET new_x0 == <<x0[1], e[1], e[2]>> IN
    /\ x0' = new_x0
    /\ solver_x' = IF SeedsStages(x0[2], e[1]) THEN [i \in Stages |-> new_x0] ELSE solver_x
    /\ last_call' = "set_cur_state"
    /\ UNCHANGED <<vc_vars, fn_vars>>
    /\ UNCHANGED <<mode, x_sol, u_sol, v_solution, a_solution, j_solution, prev_a, params,
                   solution_status, last_cloudlog_t, crash_cnt, status, source,
                   accel_limits, jerk_factors, base_cost_weights, solver_p, now, warnings,
                   solve_ret, obstacles, fcw_run, solver_cost, shaping,
                   solved_cost>>

\* update(...), with run() and, on a nonzero status, reset() inside it: the value of
\* every field after the call
UpdateResult(lead_one, lead_two, v_cruise, v_ref, t_follow, radarless_model, ret, j) ==
  LET v_ego == x0[2]
      lead_xv_0 == LeadTrajectories[lead_one][v_ego]
      lead_xv_1 == LeadTrajectories[lead_two][v_ego]
      x_obstacles == ObstacleTable[mode][<<lead_one, lead_two>>][v_ego][v_cruise][t_follow][accel_limits]
      source_0 == SourceBeforeSolve(mode, x_obstacles, v_ego, v_cruise, v_ref)
      params_0 == Evaluated([i \in Stages |->
                     <<accel_limits[1], accel_limits[2], MinObstacle(x_obstacles[i]),
                       prev_a[i], t_follow,
                       IF mode = "acc" THEN LEAD_DANGER_FACTOR ELSE 100>>])
      \* _apply_dynamic_costs(chosen_lead_xv)
      pushed == DynamicCostTable[x_sol][mode][<<lead_one, lead_two>>][v_ego][v_cruise][t_follow][accel_limits][<<base_cost_weights, jerk_factors[1]>>]
      \* run()
      sol == SolverTrajectories[x0][j]
      t == now + 1
      warn == ret # 0 /\ WarningDue(t, last_cloudlog_t)
      resets == RunResets(ret)
      R == ResetState(mode)
      sol_x == IF resets THEN R.x_sol ELSE sol.x
      a_sol == Evaluated([i \in Stages |-> sol.x[i][3]])
      \* back in update()
      lead_probability == IF radarless_model THEN lead_one.prob ELSE lead_one.modelProb
      crash_0 == IF resets THEN R.crash_cnt ELSE crash_cnt
  IN  [ now |-> t,
        obstacles |-> x_obstacles,
        solver_p |-> params_0,
        solve_ret |-> ret,
        shaping |-> [x_sol |-> x_sol, lead_xv |-> lead_xv_0,
                     base_cost_weights |-> base_cost_weights,
                     acceleration_jerk_factor |-> jerk_factors[1]],
        solved_cost |-> CostsAtSolve(solver_cost, pushed),
        solver_cost |-> IF resets THEN R.solver_cost ELSE pushed,
        warnings |-> IF warn THEN SubSeq(<<t>> \o warnings, 1, Min(2, Len(warnings) + 1))
                     ELSE warnings,
        x_sol |-> sol_x,
        u_sol |-> IF resets THEN R.u_sol ELSE sol.u,
        v_solution |-> IF resets THEN R.v_solution
                       ELSE Evaluated([i \in Stages |-> sol.x[i][2]]),
        a_solution |-> IF resets THEN R.a_solution ELSE a_sol,
        j_solution |-> IF resets THEN R.j_solution ELSE sol.u,
        prev_a |-> IF resets THEN R.prev_a ELSE ShiftedAccel(a_sol),
        params |-> IF resets THEN R.params ELSE params_0,
        x0 |-> IF resets THEN R.x0 ELSE x0,
        solver_x |-> IF resets THEN R.solver_x ELSE sol.x,
        solution_status |-> IF resets THEN R.solution_status ELSE ret,
        last_cloudlog_t |-> IF resets THEN R.last_cloudlog_t
                            ELSE IF warn THEN t ELSE last_cloudlog_t,
        status |-> IF resets THEN R.status ELSE (lead_one.status \/ lead_two.status),
        jerk_factors |-> IF resets THEN R.jerk_factors ELSE jerk_factors,
        base_cost_weights |-> IF resets THEN R.base_cost_weights ELSE base_cost_weights,
        fcw |-> FcwCondition(lead_xv_0, sol_x, lead_probability),
        crash_cnt |-> IF FcwCondition(lead_xv_0, sol_x, lead_probability)
                      THEN crash_0 + 1 ELSE 0,
        source |-> SourceAfterSolve(mode, source_0, x_obstacles, sol_x, t_follow) ]

Update ==
  /\ accel_limits # <<>>
  /\ (now % LOG_PERIOD) < MaxTicks
  /\ \E leads \in LeadPairs, plan \in Plans, t_follow \in TFollows, solved \in SolverResults :
     \* radarless_model only chooses between lead_one.prob and lead_one.modelProb
     \E radarless_model \in IF leads[1].prob = leads[1].modelProb THEN {TRUE} ELSE BOOLEAN :
    /\ \E U \in {UpdateResult(leads[1], leads[2], plan[1], plan[2], t_follow,
                              radarless_model, solved[1], solved[2])} :
         /\ now' = U.now
         /\ obstacles' = U.obstacles
         /\ solver_p' = U.solver_p
         /\ solver_cost' = U.solver_cost
         /\ shaping' = U.shaping
         /\ solved_cost' = U.solved_cost
         /\ solve_ret' = U.solve_ret
         /\ warnings' = U.warnings
         /\ x_sol' = U.x_sol
         /\ u_sol' = U.u_sol
         /\ v_solution' = U.v_solution
         /\ a_solution' = U.a_solution
         /\ j_solution' = U.j_solution
         /\ prev_a' = U.prev_a
         /\ params' = U.params
         /\ x0' = U.x0
         /\ solver_x' = U.solver_x
         /\ solution_status' = U.solution_status
         /\ last_cloudlog_t' = U.last_cloudlog_t
         /\ status' = U.status
         /\ jerk_factors' = U.jerk_factors
         /\ base_cost_weights' = U.base_cost_weights
         /\ crash_cnt' = U.crash_cnt
         /\ source' = U.source
         /\ fcw_run' = IF U.fcw THEN fcw_run + 1 ELSE 0
    /\ last_call' = "update"
    /\ UNCHANGED <<vc_vars, fn_vars>>
    /\ UNCHANGED <<mode, accel_limits>>

----------------------------------------------------------------------------
\* FrogPilotVCruise (frogpilot_vcruise.py)
\*
\* Speeds are in 1/400 m/s, distances in 1/8000 m (the distance covered in one tick
\* at one unit of speed), timers in ticks of DT_MDL, decelerations in 1/400 m/s^2,
\* curvatures in 1e-6 1/m, lateral accelerations in 1/1000 m/s^2.

TICKS_PER_S == 20                 \* 1 / DT_MDL, DT_MDL = 0.05 s
CRUISING_SPEED == 2680            \* 6.7 m/s
PLANNER_TIME == 10                \* frogpilot_variables.PLANNER_TIME, in s
V_CRUISE_UNSET == 102000          \* drive_helpers.V_CRUISE_UNSET = 255
FORCE_STOP_LENGTH == 800000       \* model_length < 100
FORCE_STOP_HOLD == 20             \* force_stop_timer >= 1, in ticks
OVERRIDE_FORCE_STOP_TIME == 200   \* override_force_stop_timer = 10, in ticks
SPEED_LIMIT_TIMEOUT == 600        \* speed_limit_timer >= 30, in ticks
SPEED_LIMIT_STEP == 400           \* the 1 of the speed-limit comparisons
MAX_DECEL == 800                  \* 2.0 m/s^2
MAX_JERK_DT == 20                 \* MAX_JERK * DT_MDL = 0.05 m/s^2 a tick
LOW_LAT_ACC == 200                \* 0.20 m/s^2
HIGH_LAT_ACC == 400               \* 0.40 m/s^2
LOOKAHEAD_DIST == 150             \* m
UPCOMING_CURVATURE_MIN == 500     \* 0.0005 1/m
TURN_SMOOTHING_ALPHA == 3         \* turn_smoothing_alpha_chauffeur = 0.3, in 1/10
REACCEL_ALPHA == 2                \* reaccel_alpha_chauffeur = 0.2, in 1/10
PRE_SLOW_ALPHA == 1               \* alpha = 0.1, in 1/10

\* floor of the square root, by bisection on [lo, hi)
RECURSIVE IsqrtIn(_, _, _)
IsqrtIn(n, lo, hi) ==
  IF hi - lo <= 1 THEN lo
  ELSE LET mid == (lo + hi) \div 2
       IN  IF mid * mid <= n THEN IsqrtIn(n, mid, hi) ELSE IsqrtIn(n, lo, mid)

Isqrt(n) == IsqrtIn(n, 0, 46341)

\* 1000 * min(1.7 + 1.9 / (1 + exp(-0.14 * (mph - 45))), 3.2) at whole mph 0..90
LatAccelTable ==
  <<1703, 1704, 1705, 1705, 1706, 1707, 1708, 1709, 1711, 1712,
    1714, 1716, 1719, 1721, 1724, 1728, 1732, 1737, 1742, 1749,
    1756, 1764, 1773, 1783, 1795, 1809, 1824, 1841, 1861, 1883,
    1907, 1935, 1965, 1998, 2035, 2076, 2120, 2167, 2218, 2273,
    2330, 2391, 2453, 2518, 2584, 2650, 2716, 2782, 2847, 2909,
    2970, 3027, 3082, 3133, 3180, 3200>>

\* nonlinear_lat_accel(v_ego_ms, turn_aggressiveness): the speed converted to mph
\* (CV.MS_TO_MPH = 2.23694), the logistic read at the whole mph below it, the result
\* times turn_aggressiveness (in 1/10)
nonlinear_lat_accel(v_ego_ms, turn_aggressiveness) ==
  LET v_ego_mph == (v_ego_ms * 2237) \div 400000
      lat_acc == LatAccelTable[Min(Max(v_ego_mph, 0), 55) + 1]
  IN  (lat_acc * turn_aggressiveness) \div 10

\* math.sqrt(lat_acc / c) as a speed: 400 * sqrt(lat_acc / c) m/s.  Below 250e-6 1/m
\* the speed is above 80 m/s; 100 m/s stands for it.
CurveSpeed(lat_acc, c) ==
  IF c < 250 THEN 40000 ELSE Isqrt((160000000 \div c) * lat_acc)

\* vCruiseCluster * CV.KPH_TO_MS, vCruiseCluster in kph
KphToMs(kph) == (kph * 1000) \div 9

\* (1 / road_curvature) ** 0.5 < v_ego, for road_curvature > 0
CurveDetected(road_curvature, v_ego) ==
  ((v_ego * v_ego) \div 1600) * road_curvature > 100000000

\* update(): force_stop, read before the hold timer is advanced
ForceStopTrigger(in) ==
  /\ in.force_stops /\ in.stop_light_detected /\ in.enabled
  /\ in.model_length < FORCE_STOP_LENGTH
  /\ override_force_stop_timer <= 0

\* the hold test passing from the first tick of the trigger
ForceStopEnabled_unheld(timer) == timer >= 1

\* update(): force_stop_enabled = self.force_stop_timer >= 1
ForceStopEnabled(timer) == timer >= FORCE_STOP_HOLD

\* update(): the conditions that override the forced stop
OverrideCondition(in) ==
  \/ (~in.force_standstill /\ in.standstill /\ in.tracking_lead)
  \/ in.gasPressed
  \/ in.accelPressed

\* update(): the map turn speed controller; mtsc_target_speed is what
\* self.mtsc.target_speed(...) returns
MapTurnTarget(in) ==
  IF in.map_turn_speed_controller /\ in.v_ego > CRUISING_SPEED /\ in.longActive
  THEN LET mtsc_active == mtsc_target < in.v_cruise
           clipped == clip(in.mtsc_target_speed, CRUISING_SPEED, in.v_cruise)
       IN  IF in.road_curvature = 0
           THEN [raised |-> "ZeroDivisionError", mtsc_target |-> clipped]
           ELSE IF in.road_curvature < 0
           THEN [raised |-> "TypeError", mtsc_target |-> clipped]
           ELSE LET curve_detected == CurveDetected(in.road_curvature, in.v_ego)
                    t == IF curve_detected /\ mtsc_active THEN in.planner_v_cruise
                         ELSE IF ~curve_detected /\ in.mtsc_curvature_check THEN in.v_cruise
                         ELSE clipped
                IN  [raised |-> "",
                     mtsc_target |-> IF t = CRUISING_SPEED THEN in.v_cruise ELSE t]
  ELSE [raised |-> "",
        mtsc_target |-> IF in.v_cruise # V_CRUISE_UNSET THEN in.v_cruise ELSE 0]

\* the timeout of a pending change never elapsing
SpeedLimitTimedOut_never(timer) == FALSE

\* update(): self.speed_limit_timer >= 30
SpeedLimitTimedOut(timer) == timer >= SPEED_LIMIT_TIMEOUT

\* the timer left as it was when no change is pending
NextSpeedLimitTimer_kept(changed, timer) == IF changed THEN timer + 1 ELSE timer

\* update(): speed_limit_timer += DT_MDL while a change is pending, else 0
NextSpeedLimitTimer(changed, timer) == IF changed THEN timer + 1 ELSE 0

\* update(): the speed limit controller; desired_speed_limit is
\* self.slc.desired_speed_limit after self.slc.update(...)
\* a proposal of no limit taken for a change as well
SpeedLimitChanged_nolimit(slc, unconfirmed) ==
  /\ Abs(slc - unconfirmed) > SPEED_LIMIT_STEP
  /\ slc # 0

\* update(): self.speed_limit_changed as the confirmation logic first computes it
SpeedLimitChanged(slc, unconfirmed) ==
  /\ Abs(slc - unconfirmed) > SPEED_LIMIT_STEP
  /\ slc # 0
  /\ unconfirmed > SPEED_LIMIT_STEP

\* deny looked at before accept
SpeedLimitResolution_denyfirst(confirming, accepted, denied, passes, changed) ==
  IF ~confirming THEN "unconfirmed"
  ELSE IF denied THEN "denied"
  ELSE IF accepted THEN "accepted"
  ELSE IF passes THEN "passed"
  ELSE IF changed THEN "pending"
  ELSE "same"

\* update(): the if / elif chain that resolves a detected speed limit change
SpeedLimitResolution(confirming, accepted, denied, passes, changed) ==
  IF ~confirming THEN "unconfirmed"
  ELSE IF accepted THEN "accepted"
  ELSE IF denied THEN "denied"
  ELSE IF passes THEN "passed"
  ELSE IF changed THEN "pending"
  ELSE "same"

\* a pending change adopted as well
AdoptsLimit_pending(resolution) ==
  resolution \in {"unconfirmed", "accepted", "passed", "pending"}

\* update(): the ways the speed limit step can end that assign slc_target
AdoptsLimit(resolution) ==
  resolution \in {"unconfirmed", "accepted", "passed"}

SpeedLimitStep(in, v_cruise_cluster, v_ego_cluster) ==
  IF in.show_speed_limits \/ in.speed_limit_controller
  THEN
    LET unconfirmed_slc_target == in.desired_speed_limit
        confirming == /\ (in.speed_limit_changed_alert \/ in.speed_limit_confirmation)
                      /\ slc_target # 0
        changed == SpeedLimitChanged(slc_target, unconfirmed_slc_target)
        confirm_param == SLCConfirmed \/ in.SLCConfirmed
        speed_limit_accepted ==
          changed /\ ((in.accelPressed /\ in.longActive) \/ confirm_param)
        speed_limit_denied ==
          changed /\ ((in.decelPressed /\ in.longActive)
                        \/ SpeedLimitTimedOut(speed_limit_timer))
        speed_limit_decreased ==
          changed /\ (slc_target - unconfirmed_slc_target) > SPEED_LIMIT_STEP
        speed_limit_increased ==
          changed /\ (unconfirmed_slc_target - slc_target) > SPEED_LIMIT_STEP
        resolution ==
          SpeedLimitResolution(confirming, speed_limit_accepted, speed_limit_denied,
            \/ (speed_limit_decreased /\ ~in.speed_limit_confirmation_lower)
            \/ (speed_limit_increased /\ ~in.speed_limit_confirmation_higher),
            changed)
        slc_1 == IF AdoptsLimit(resolution)
                 THEN unconfirmed_slc_target ELSE slc_target
        changed_1 == IF confirming THEN resolution = "pending" ELSE speed_limit_changed
        timer_1 == IF ~confirming THEN speed_limit_timer
                   ELSE NextSpeedLimitTimer(changed_1, speed_limit_timer)
        override_0 == /\ (overridden_speed > slc_1 \/ (in.gasPressed /\ in.v_ego > slc_1))
                      /\ in.enabled
        override_1 == in.speed_limit_controller /\ override_0
        overridden_1 ==
          IF ~override_1 THEN 0
          ELSE IF in.speed_limit_controller_override_manual
          THEN clip(IF in.gasPressed THEN v_ego_cluster ELSE overridden_speed,
                    slc_1, in.v_cruise)
          ELSE IF in.speed_limit_controller_override_set_speed THEN v_cruise_cluster
          ELSE overridden_speed
    IN  [slc_target |-> slc_1, speed_limit_changed |-> changed_1,
         speed_limit_timer |-> timer_1, override_slc |-> override_1,
         overridden_speed |-> overridden_1,
         SLCConfirmed |-> confirm_param /\ resolution # "accepted",
         slc_resolution |-> resolution]
  ELSE [slc_target |-> 0, speed_limit_changed |-> speed_limit_changed,
        speed_limit_timer |-> speed_limit_timer, override_slc |-> override_slc,
        overridden_speed |-> overridden_speed,
        SLCConfirmed |-> SLCConfirmed \/ in.SLCConfirmed,
        slc_resolution |-> "off"]

\* update(): the vision turn speed controller is active on this tick
VisionTurnActive(in) ==
  in.vision_turn_controller /\ in.v_ego > CRUISING_SPEED /\ in.longActive

\* update(): v_target, the smoothed curvature target after the lookahead pre-slowing
SmoothedTurnTarget(in) ==
    LET c == Abs(in.road_curvature)
        lat_acc == nonlinear_lat_accel(in.v_ego, in.turn_aggressiveness)
        v_curvature_ms == clip(IF c = 0 THEN in.v_cruise ELSE CurveSpeed(lat_acc, c),
                               CRUISING_SPEED, in.v_cruise)
        current_lat_acc == (((in.v_ego * in.v_ego) \div 16000) * c) \div 10000
        v_target_0 ==
          IF current_lat_acc > LOW_LAT_ACC
          THEN LET alpha == IF current_lat_acc < HIGH_LAT_ACC THEN PRE_SLOW_ALPHA
                            ELSE TURN_SMOOTHING_ALPHA
               IN  (alpha * vtsc_target_prev + (10 - alpha) * v_curvature_ms) \div 10
          ELSE (REACCEL_ALPHA * vtsc_target_prev + (10 - REACCEL_ALPHA) * in.v_cruise) \div 10
        ahead == /\ in.upcoming_curve_dist < LOOKAHEAD_DIST
                 /\ in.upcoming_curvature > UPCOMING_CURVATURE_MIN
        v_curve_ahead == CurveSpeed(lat_acc, in.upcoming_curvature)
        fraction == Max(0, LOOKAHEAD_DIST - in.upcoming_curve_dist)
        pre_slow_target ==
          v_curve_ahead + (fraction * (v_curve_ahead - v_target_0)) \div LOOKAHEAD_DIST
    IN  IF ahead THEN Min(v_target_0, pre_slow_target) ELSE v_target_0

\* the desired deceleration taken at once
JerkLimitedDecel_unlimited(desired_decel, current) == desired_decel

\* update(): the step of current_decel towards desired_decel, MAX_JERK * DT_MDL at most
JerkLimitedDecel(desired_decel, current) ==
  LET decel_diff == desired_decel - current
  IN  IF decel_diff > MAX_JERK_DT THEN current + MAX_JERK_DT
      ELSE IF decel_diff < -MAX_JERK_DT THEN current - MAX_JERK_DT
      ELSE desired_decel

\* update(): the vision turn speed controller
VisionTurnTarget(in) ==
  IF VisionTurnActive(in)
  THEN
    LET c == Abs(in.road_curvature)
        ahead == /\ in.upcoming_curve_dist < LOOKAHEAD_DIST
                 /\ in.upcoming_curvature > UPCOMING_CURVATURE_MIN
        v_target == SmoothedTurnTarget(in)
        desired_decel == IF v_target < in.v_ego
                         THEN clip(in.v_ego - v_target, 0, MAX_DECEL) ELSE 0
        decel_1 == JerkLimitedDecel(desired_decel, current_decel)
        jerk_limited_target == Min(in.v_ego - decel_1 \div TICKS_PER_S, v_target)
    IN  \* lat_acc is bound only on the branch c >= 1e-9
        IF ahead /\ c = 0
        THEN [raised |-> "UnboundLocalError", vtsc_target |-> vtsc_target,
              vtsc_target_prev |-> vtsc_target_prev, current_decel |-> current_decel]
        ELSE [raised |-> "", vtsc_target |-> jerk_limited_target,
              vtsc_target_prev |-> jerk_limited_target, current_decel |-> decel_1]
  ELSE [raised |-> "", vtsc_target |-> in.v_cruise, vtsc_target_prev |-> in.v_cruise,
        current_decel |-> 0]

\* the tracked distance consumed without the floor at 0
ConsumeTracked_unfloored(tracked, v_ego) == tracked - v_ego

\* update(): max(self.tracked_model_length - v_ego * DT_MDL, 0)
ConsumeTracked(tracked, v_ego) == Max(tracked - v_ego, 0)

\* update(): min(self.tracked_model_length // PLANNER_TIME, v_cruise); the floor
\* division leaves whole m/s
StopSpeed(tracked, v_cruise) == Min((tracked \div (8000 * PLANNER_TIME)) * 400, v_cruise)

\* a target at or below CRUISING_SPEED taken as it is
FloorTarget_unfloored(t, v_cruise) == t

\* update(): t if t > CRUISING_SPEED else v_cruise
FloorTarget(t, v_cruise) == IF t > CRUISING_SPEED THEN t ELSE v_cruise

\* the speed limit left out of the targets whatever the toggle
AdvisorTargets_noslc(in, mtsc, slc, overridden, vtsc, v_ego_diff) == <<mtsc, vtsc>>

\* update(): targets, with the speed limit (or the driver's override of it) only
\* when the speed limit controller is on
AdvisorTargets(in, mtsc, slc, overridden, vtsc, v_ego_diff) ==
  IF in.speed_limit_controller
  THEN <<mtsc, Max(overridden, slc) - v_ego_diff, vtsc>>
  ELSE <<mtsc, vtsc>>

\* update(): the final target among [MapTurn, SpeedLimit, VisionTurn]
FinalTarget(in, mtsc, slc, overridden, vtsc, v_ego_diff) ==
  LET targets == AdvisorTargets(in, mtsc, slc, overridden, vtsc, v_ego_diff)
  IN  SeqMin([k \in 1..Len(targets) |-> FloorTarget(targets[k], in.v_cruise)])

\* update(carControl, carState, controlsState, frogpilotCarControl, frogpilotCarState,
\* frogpilotNavigation, v_cruise, v_ego, frogpilot_toggles): every field after the
\* call, the value returned (ret), the branch of the final arbitration that produced
\* it, and the exception that ended the call early if one did
VcUpdateResult(in) ==
  LET \* force stop logic
      force_stop == ForceStopTrigger(in)
      force_stop_timer_1 == IF force_stop THEN force_stop_timer + 1 ELSE 0
      force_stop_enabled == ForceStopEnabled(force_stop_timer_1)
      override_1 == (override_force_stop \/ OverrideCondition(in)) /\ force_stop_enabled
      override_timer_1 == IF override_1 THEN OVERRIDE_FORCE_STOP_TIME
                          ELSE IF override_force_stop_timer > 0
                          THEN override_force_stop_timer - 1
                          ELSE override_force_stop_timer
      \* cluster offsets
      v_cruise_cluster == Max(KphToMs(in.vCruiseCluster), in.v_cruise)
      v_cruise_diff == v_cruise_cluster - in.v_cruise
      v_ego_cluster == Max(in.vEgoCluster, in.v_ego)
      v_ego_diff == v_ego_cluster - in.v_ego
      \* the advisors
      M == MapTurnTarget(in)
      S == SpeedLimitStep(in, v_cruise_cluster, v_ego_cluster)
      V == VisionTurnTarget(in)
      \* forced standstill / forced stop / final target
      branch_1 == IF in.force_standstill /\ in.standstill /\ ~override_1 /\ in.enabled
                  THEN "standstill"
                  ELSE IF force_stop_enabled /\ ~override_1 THEN "stop"
                  ELSE "targets"
      tracked_1 == IF branch_1 = "standstill" THEN tracked_model_length
                   ELSE IF branch_1 = "stop"
                   THEN ConsumeTracked(tracked_model_length, in.v_ego)
                   ELSE in.model_length
      ret == IF branch_1 = "standstill" THEN -400
             ELSE IF branch_1 = "stop" THEN StopSpeed(tracked_1, in.v_cruise)
             ELSE FinalTarget(in, M.mtsc_target, S.slc_target, S.overridden_speed,
                              V.vtsc_target, v_ego_diff)
      started == [force_stop |-> force_stop,
                  force_stop_timer |-> force_stop_timer_1,
                  override_force_stop |-> override_1,
                  override_force_stop_timer |-> override_timer_1,
                  forcing_stop |-> forcing_stop,
                  tracked_model_length |-> tracked_model_length,
                  mtsc_target |-> mtsc_target,
                  slc_target |-> slc_target,
                  speed_limit_changed |-> speed_limit_changed,
                  speed_limit_timer |-> speed_limit_timer,
                  override_slc |-> override_slc,
                  overridden_speed |-> overridden_speed,
                  SLCConfirmed |-> SLCConfirmed \/ in.SLCConfirmed,
                  slc_resolution |-> "off",
                  vtsc_target |-> vtsc_target,
                  vtsc_target_prev |-> vtsc_target_prev,
                  current_decel |-> current_decel,
                  branch |-> "raised", raised |-> "", ret |-> vc_ret]
      after_mtsc == [started EXCEPT !.mtsc_target = M.mtsc_target, !.raised = M.raised]
      after_slc == [after_mtsc EXCEPT !.slc_target = S.slc_target,
                                      !.speed_limit_changed = S.speed_limit_changed,
                                      !.speed_limit_timer = S.speed_limit_timer,
                                      !.override_slc = S.override_slc,
                                      !.overridden_speed = S.overridden_speed,
                                      !.SLCConfirmed = S.SLCConfirmed,
                                      !.slc_resolution = S.slc_resolution]
  IN  IF M.raised # "" THEN after_mtsc
      ELSE IF V.raised # "" THEN [after_slc EXCEPT !.raised = V.raised]
      ELSE [after_slc EXCEPT
              !.vtsc_target = V.vtsc_target + v_cruise_diff,
              !.vtsc_target_prev = V.vtsc_target_prev,
              !.current_decel = V.current_decel,
              !.mtsc_target = M.mtsc_target + v_cruise_diff,
              !.override_force_stop =
                 IF branch_1 = "targets" /\ ~in.stop_light_detected THEN FALSE
                 ELSE override_1,
              !.forcing_stop = IF branch_1 = "standstill" THEN TRUE
                               ELSE IF branch_1 = "stop"
                               THEN forcing_stop \/ ~in.standstill
                               ELSE FALSE,
              !.tracked_model_length = tracked_1,
              !.branch = branch_1,
              !.ret = ret]

----------------------------------------------------------------------------
\* Inputs of FrogPilotVCruise.update explored

\* A tick with every toggle off and the car cruising at 10 m/s below a set speed of
\* 20 m/s, the model seeing 90 m of road
BaseIn ==
  [ v_cruise |-> 8000, v_ego |-> 4000,
    \* frogpilot_toggles
    force_stops |-> FALSE, force_standstill |-> FALSE,
    map_turn_speed_controller |-> FALSE, mtsc_curvature_check |-> FALSE,
    show_speed_limits |-> FALSE, speed_limit_controller |-> FALSE,
    speed_limit_changed_alert |-> FALSE, speed_limit_confirmation |-> FALSE,
    speed_limit_confirmation_lower |-> FALSE, speed_limit_confirmation_higher |-> FALSE,
    speed_limit_controller_override_manual |-> FALSE,
    speed_limit_controller_override_set_speed |-> FALSE,
    vision_turn_controller |-> FALSE, turn_aggressiveness |-> 10,
    \* carState, controlsState, carControl, frogpilotCarControl
    standstill |-> FALSE, gasPressed |-> FALSE, vEgoCluster |-> 0,
    enabled |-> TRUE, vCruiseCluster |-> 0, longActive |-> TRUE,
    accelPressed |-> FALSE, decelPressed |-> FALSE,
    \* frogpilot_planner
    stop_light_detected |-> FALSE, model_length |-> 720000, tracking_lead |-> FALSE,
    road_curvature |-> 100, planner_v_cruise |-> 8000,
    upcoming_curve_dist |-> 1000, upcoming_curvature |-> 0,
    \* self.mtsc.target_speed(...), self.slc.desired_speed_limit, params_memory
    mtsc_target_speed |-> 8000, desired_speed_limit |-> 0, SLCConfirmed |-> FALSE ]

\* Ticks around a stop light with no override: moving or at standstill, a set speed
\* below or above CRUISING_SPEED, a long or a short stretch of road ahead; the
\* forced standstill; and advisors whose targets lie on either side of CRUISING_SPEED
StopInputs ==
  {[BaseIn EXCEPT !.force_stops = TRUE, !.stop_light_detected = light,
                  !.standstill = still, !.v_ego = IF still THEN 0 ELSE 4000,
                  !.v_cruise = v, !.model_length = len] :
      light \in BOOLEAN, still \in BOOLEAN, v \in {2000, 8000}, len \in {720000, 8000}}
  \cup
  {[BaseIn EXCEPT !.force_stops = TRUE, !.force_standstill = TRUE,
                  !.stop_light_detected = light, !.standstill = TRUE, !.v_ego = 0] :
      light \in BOOLEAN}
  \cup
  {[BaseIn EXCEPT !.map_turn_speed_controller = TRUE, !.road_curvature = 2000,
                  !.mtsc_target_speed = t, !.v_cruise = v] :
      t \in {800, 3200}, v \in {2000, 8000}}
  \cup
  {[BaseIn EXCEPT !.speed_limit_controller = TRUE, !.desired_speed_limit = l] :
      l \in {2000, 6000}}

\* Ticks at a stop light with the driver on or off the accelerator
OverrideInputs ==
  {[BaseIn EXCEPT !.force_stops = TRUE, !.stop_light_detected = light,
                  !.gasPressed = gas, !.v_ego = 400] :
      light \in BOOLEAN, gas \in BOOLEAN}

\* Ticks at standstill with the forced standstill on and controls enabled: a stop
\* light detected or not, the driver on or off the accelerator pedal and button
StandstillInputs ==
  {[BaseIn EXCEPT !.force_stops = TRUE, !.force_standstill = TRUE,
                  !.standstill = TRUE, !.v_ego = 0,
                  !.stop_light_detected = light, !.gasPressed = gas,
                  !.accelPressed = acc] :
      light \in BOOLEAN, gas \in BOOLEAN, acc \in BOOLEAN}

\* Ticks with the speed limit controller on and the confirmation asked for: the
\* advisor reporting no limit (0 or 1), 20 or 25 m/s, the driver pressing accel, decel
\* or nothing; and with only the change alert on, the advisor reporting no limit or
\* 25 m/s
NoLimitInputs ==
  {[BaseIn EXCEPT !.speed_limit_controller = TRUE, !.speed_limit_confirmation = TRUE,
                  !.speed_limit_confirmation_lower = TRUE,
                  !.speed_limit_confirmation_higher = TRUE,
                  !.v_cruise = 12000, !.desired_speed_limit = l,
                  !.accelPressed = (press = "accel"), !.decelPressed = (press = "decel")] :
      l \in {0, 400, 8000, 10000}, press \in {"none", "accel", "decel"}}
  \cup
  {[BaseIn EXCEPT !.speed_limit_controller = TRUE, !.speed_limit_changed_alert = TRUE,
                  !.speed_limit_confirmation_lower = TRUE,
                  !.speed_limit_confirmation_higher = TRUE,
                  !.v_cruise = 12000, !.desired_speed_limit = l] :
      l \in {0, 10000}}

\* Ticks with the speed limit controller on and both confirmations asked for: the
\* advisor proposing 20 or 25 m/s, the driver pressing accel, decel or nothing
SlcInputs ==
  {[BaseIn EXCEPT !.speed_limit_controller = TRUE, !.speed_limit_confirmation = TRUE,
                  !.speed_limit_confirmation_lower = TRUE,
                  !.speed_limit_confirmation_higher = TRUE,
                  !.v_cruise = 12000,
                  !.desired_speed_limit = l, !.accelPressed = acc, !.decelPressed = dec,
                  !.SLCConfirmed = conf] :
      l \in {8000, 10000}, acc \in BOOLEAN, dec \in BOOLEAN, conf \in BOOLEAN}

\* The same ticks with the confirmation asked for in one direction only, in none, or
\* not at all, and nothing answering; and with the confirmation asked for in no
\* direction, the driver pressing decel
SlcToggleInputs ==
  {[BaseIn EXCEPT !.speed_limit_controller = TRUE, !.speed_limit_confirmation = ask,
                  !.speed_limit_confirmation_lower = lower,
                  !.speed_limit_confirmation_higher = higher,
                  !.v_cruise = 12000, !.desired_speed_limit = l] :
      l \in {8000, 10000}, ask \in BOOLEAN, lower \in BOOLEAN, higher \in BOOLEAN}
  \cup
  {[BaseIn EXCEPT !.speed_limit_controller = TRUE, !.speed_limit_confirmation = TRUE,
                  !.v_cruise = 12000, !.desired_speed_limit = l, !.decelPressed = TRUE] :
      l \in {8000, 10000}}

\* Ticks of the final arbitration: a set speed below or above CRUISING_SPEED, the
\* speed limit controller off or proposing 5, 15 or 25 m/s with the manual override
\* and the accelerator, the map turn controller off or proposing 2 or 8 m/s in a
\* curve, and the cluster showing the same or higher speeds
TargetInputs ==
  {[BaseIn EXCEPT !.v_cruise = v, !.speed_limit_controller = (l # 0),
                  !.desired_speed_limit = l,
                  !.speed_limit_controller_override_manual = TRUE, !.gasPressed = gas,
                  !.map_turn_speed_controller = (m # 0), !.mtsc_target_speed = m,
                  !.road_curvature = 2000,
                  !.vEgoCluster = ec, !.vCruiseCluster = cc] :
      v \in {2000, 8000}, l \in {0, 2000, 6000, 10000}, gas \in BOOLEAN,
      m \in {0, 800, 3200}, ec \in {0, 4400}, cc \in {0, 75}}

\* Ticks with the vision turn controller on: the car at 10, 20 or 22.5 m/s under a
\* set speed of 20 m/s, on a straight, a gentle or a sharp curve, with or without a
\* curve coming up inside the lookahead distance
VisionInputs ==
  {[BaseIn EXCEPT !.vision_turn_controller = TRUE, !.v_ego = v, !.road_curvature = c,
                  !.upcoming_curve_dist = up[1], !.upcoming_curvature = up[2]] :
      v \in {4000, 8000, 9000}, c \in {0, 2000, 10000},
      up \in {<<1000, 0>>, <<100, 1000>>}}

\* Ticks with the map turn and the vision turn controller on or off, in a gentle curve
\* at 15 or 28 m/s, the map proposing 15 m/s, the driver's set speed at 5, 20 or
\* 30 m/s
LoweredInputs ==
  {[BaseIn EXCEPT !.v_cruise = v, !.v_ego = e, !.road_curvature = 2000,
                  !.map_turn_speed_controller = on[1], !.vision_turn_controller = on[2],
                  !.mtsc_target_speed = 6000] :
      v \in {2000, 8000, 12000}, e \in {6000, 11200},
      on \in {<<TRUE, TRUE>>, <<TRUE, FALSE>>, <<FALSE, TRUE>>}}

\* Ticks with the vision turn controller on in a gentle curve at 10 or 20 m/s under
\* a set speed of 20 m/s: no curve coming up, a curve of 50 m radius 100 m ahead, or
\* one of 20 m radius 30 m ahead
SharpCurveInputs ==
  {[BaseIn EXCEPT !.vision_turn_controller = TRUE, !.v_ego = v, !.road_curvature = 2000,
                  !.upcoming_curve_dist = up[1], !.upcoming_curvature = up[2]] :
      v \in {4000, 8000},
      up \in {<<1000, 0>>, <<100, 20000>>, <<30, 50000>>}}

\* Ticks with the vision turn controller on in a sharp curve, the car well below, just
\* above or well above the speed the curve allows
DecelInputs ==
  {[BaseIn EXCEPT !.vision_turn_controller = TRUE, !.v_ego = v, !.road_curvature = 10000] :
      v \in {4000, 6000, 9000}}

MaxVisionTicks == 6               \* ticks explored with the vision turn controller on

MaxForceStopTicks == 4            \* ticks explored with the forced stop active

----------------------------------------------------------------------------
\* Actions of FrogPilotVCruise

\* __init__(FrogPilotPlanner)
VcInit ==
  /\ forcing_stop = FALSE /\ override_force_stop = FALSE /\ override_slc = FALSE
  /\ speed_limit_changed = FALSE
  /\ force_stop_timer = 0 /\ override_force_stop_timer = 0 /\ speed_limit_timer = 0
  /\ mtsc_target = 0 /\ slc_target = 0 /\ vtsc_target = 0 /\ overridden_speed = 0
  /\ tracked_model_length = 0
  /\ vtsc_target_prev = 0 /\ current_decel = 0
  /\ SLCConfirmed = FALSE
  /\ vc_ret = 0 /\ branch = "none" /\ raised = "" /\ slc_resolution = "off"
  /\ vc_in = BaseIn
  /\ trigger_held = 0 /\ override_cond_age = -1 /\ pending_before = 0
  /\ vc_ticks = 0

\* One call of update() with the inputs in
VcTick(in) ==
  /\ raised = ""
  /\ \E U \in {VcUpdateResult(in)} :
       /\ U.force_stop_timer <= FORCE_STOP_HOLD + MaxForceStopTicks
       /\ force_stop_timer' = U.force_stop_timer
       /\ override_force_stop' = U.override_force_stop
       /\ override_force_stop_timer' = U.override_force_stop_timer
       /\ forcing_stop' = U.forcing_stop
       /\ tracked_model_length' = U.tracked_model_length
       /\ mtsc_target' = U.mtsc_target
       /\ slc_target' = U.slc_target
       /\ speed_limit_changed' = U.speed_limit_changed
       /\ speed_limit_timer' = U.speed_limit_timer
       /\ override_slc' = U.override_slc
       /\ overridden_speed' = U.overridden_speed
       /\ SLCConfirmed' = U.SLCConfirmed
       /\ slc_resolution' = U.slc_resolution
       /\ vtsc_target' = U.vtsc_target
       /\ vtsc_target_prev' = U.vtsc_target_prev
       /\ current_decel' = U.current_decel
       /\ vc_ret' = U.ret
       /\ branch' = U.branch
       /\ raised' = U.raised
       \* the consecutive ticks, this one included, on which the trigger held
       /\ trigger_held' = IF U.force_stop THEN Min(trigger_held + 1, FORCE_STOP_HOLD) ELSE 0
       \* the ticks since an override condition last held, from the tick on which
       \* one suppressed the forced stop until OVERRIDE_FORCE_STOP_TIME after it cleared
       /\ override_cond_age' =
            IF OverrideCondition(in) /\ (U.override_force_stop_timer = OVERRIDE_FORCE_STOP_TIME
                                           \/ override_cond_age >= 0)
            THEN 0
            ELSE IF override_cond_age >= 0 /\ override_cond_age < OVERRIDE_FORCE_STOP_TIME - 1
            THEN override_cond_age + 1
            ELSE -1
  /\ vc_in' = in
  /\ pending_before' = speed_limit_timer
  /\ vc_ticks' = Min(vc_ticks + 1, MaxVisionTicks)
  /\ UNCHANGED <<mpc_vars, fn_vars>>

StopTick == \E in \in StopInputs : VcTick(in)
OverrideTick == \E in \in OverrideInputs : VcTick(in)
StandstillTick == \E in \in StandstillInputs : VcTick(in)
NoLimitTick == \E in \in NoLimitInputs : VcTick(in)
SlcTick == \E in \in SlcInputs \cup SlcToggleInputs : VcTick(in)
TargetTick == \E in \in TargetInputs : VcTick(in)
DecelTick == \E in \in DecelInputs : VcTick(in)
SharpCurveTick == vc_ticks < MaxVisionTicks /\ \E in \in SharpCurveInputs : VcTick(in)
\* update() as the planner calls it tick after tick: frogpilot_planner.v_cruise holds
\* the speed the call before returned
LoweredTick ==
  /\ vc_ticks < MaxVisionTicks
  /\ \E in \in LoweredInputs : VcTick([in EXCEPT !.planner_v_cruise = vc_ret])
VisionTick == vc_ticks < MaxVisionTicks /\ \E in \in VisionInputs : VcTick(in)

----------------------------------------------------------------------------
\* Calls of the module-level functions and of the pure steps of update()

\* The follow times of get_T_FOLLOW: aggressive, standard, relaxed
PersonalityTFollows == {125, T_FOLLOW_STANDARD, 175}

MaxSpeedSteps == 16               \* ego speeds explored: 0 .. MaxSpeedSteps * 2.5 m/s

\* update() in ACC mode up to the choice of the source, with neither lead valid
ProbeSource ==
  \E k \in 0..MaxSpeedSteps, v_cruise \in {0, 1000, 3000, 4000},
     t_follow \in PersonalityTFollows, limits \in AccelLimits :
    LET v_ego == 250 * k
        lead_xv == process_lead(NoLead, v_ego)
        x_obstacles == ObstacleCandidates("acc", lead_xv, lead_xv, v_ego, v_cruise,
                                          t_follow, limits)
    IN  /\ probe' = [fn |-> "source", v_ego |-> v_ego, v_cruise |-> v_cruise,
                     t_follow |-> t_follow, lead_xv_0 |-> lead_xv[0],
                     x_obstacles_0 |-> x_obstacles[0],
                     out |-> SourceBeforeSolve("acc", x_obstacles, v_ego, v_cruise, 0)]
        /\ UNCHANGED <<mpc_vars, vc_vars>>

\* Leads handed to process_lead: valid or not, the reported range behind the car, at
\* it or ahead, the lead reversing, at rest or driving, braking or accelerating within
\* and beyond the limits; ego at rest, at 10 or at 20 m/s
LeadInputs ==
  [status : BOOLEAN, dRel : {-500, -100, 0, 1000, 5000}, vLead : {-500, 0, 1000, 3000},
   aLeadK : {-1500, -200, 0, 800}, v_ego : {0, 1000, 2000}]

\* process_lead called on one lead
ProbeLead ==
  /\ probe.fn = "none"
  /\ LET in == probe.in
         lead == [status |-> in.status, dRel |-> in.dRel, vLead |-> in.vLead,
                  aLeadK |-> in.aLeadK, aLeadTau |-> LEAD_ACCEL_TAU,
                  prob |-> 99, modelProb |-> 99]
     IN probe' = [fn |-> "lead", in |-> in, out |-> process_lead(lead, in.v_ego)]
  /\ UNCHANGED <<mpc_vars, vc_vars>>

\* The stages handed to the cost-shaping functions: ego and lead position and speed
PullawayInputs ==
  [x_ego : {0, 1000}, v_ego : {0, 1000, 2000}, x_lead : {1000, 3000, 4000, 4200, 8000},
   dv : {-500, 0, 100, 300, 1000}, t_follow : PersonalityTFollows,
   base_cost : {0, 10, 30}, pullaway_max_factor : {500, 1000, 1200, 1300, 2000}]

\* dynamic_lead_pullaway_distance_cost called on one stage
ProbePullaway ==
  /\ probe.fn = "none"
  /\ LET in == probe.in
         v_lead == Max(0, in.v_ego + in.dv)
     IN probe' = [fn |-> "pullaway", in |-> in,
                  gap_excess |-> (in.x_lead - in.x_ego)
                                 - desired_follow_distance(in.v_ego, v_lead, in.t_follow),
                  speed_diff |-> v_lead - in.v_ego,
                  out |-> dynamic_lead_pullaway_distance_cost(
                            in.x_ego, in.v_ego, in.x_lead, v_lead, in.t_follow,
                            in.base_cost, in.pullaway_max_factor)]
  /\ UNCHANGED <<mpc_vars, vc_vars>>

\* Trajectories handed to the jerk-cost array: an obstacle at rest, ego and lead at
\* constant speed, and the acceleration-jerk multiplier in 1/1000
JerkInputs ==
  [x_obstacle : {500, 3000, 10000}, v_ego : {0, 1000, 2000},
   dv : {-1000, -100, 0, 100, 1000}, t_follow : PersonalityTFollows,
   acceleration_jerk_factor : {0, 10, 40, 50, 1000, 2000}]

\* get_smooth_dynamic_j_ego_cost_array called as _apply_dynamic_costs calls it
ProbeJerk ==
  /\ probe.fn = "none"
  /\ LET in == probe.in
         v_lead == Max(0, in.v_ego + in.dv)
         base_jerk_cost == base_j_cost(in.acceleration_jerk_factor)
     IN probe' = [fn |-> "jerk", in |-> in, base_jerk_cost |-> base_jerk_cost,
                  out |-> get_smooth_dynamic_j_ego_cost_array(
                            [i \in Stages |-> in.x_obstacle],
                            [i \in Stages |-> (in.v_ego * T_IDXS(i)) \div 360],
                            [i \in Stages |-> in.v_ego], [i \in Stages |-> v_lead],
                            [i \in Stages |-> in.t_follow], base_jerk_cost, TRUE, 1000)]
  /\ UNCHANGED <<mpc_vars, vc_vars>>

\* Speeds on the grid of MaxSpeedSteps, a follow time, and the amounts by which the
\* ego speed and the lead speed are raised
FollowInputs ==
  [k_ego : 0..MaxSpeedSteps, k_lead : 0..MaxSpeedSteps,
   t_follow : {0} \cup PersonalityTFollows, dv : {100, 1000}]

\* desired_follow_distance called at a pair of speeds, with the ego speed raised and
\* with the lead speed raised
ProbeFollow ==
  /\ probe.fn = "none"
  /\ LET in == probe.in
         v_ego == 250 * in.k_ego
         v_lead == 250 * in.k_lead
     IN probe' = [fn |-> "follow", in |-> in, v_ego |-> v_ego, v_lead |-> v_lead,
                  out |-> desired_follow_distance(v_ego, v_lead, in.t_follow),
                  out_ego_up |-> desired_follow_distance(v_ego + in.dv, v_lead, in.t_follow),
                  out_lead_up |-> desired_follow_distance(v_ego, v_lead + in.dv, in.t_follow)]
  /\ UNCHANGED <<mpc_vars, vc_vars>>

----------------------------------------------------------------------------
\* Specifications

\* The MPC under every order of its entry points
Init == MpcInit /\ VcInit /\ probe = [fn |-> "none"]

Next == Reset \/ SetWeights \/ SetAccelLimits \/ SetCurState \/ Update

Spec == Init /\ [][Next]_vars

\* FrogPilotVCruise ticked beside an idle ACC MPC
VcStart == MpcInit /\ mode = "acc" /\ now = 2 * LOG_PERIOD /\ VcInit /\ probe = [fn |-> "none"]

SpecStop == VcStart /\ [][StopTick]_vars

SpecOverride == VcStart /\ [][OverrideTick]_vars

SpecStandstill == VcStart /\ [][StandstillTick]_vars

SpecNoLimit == VcStart /\ [][NoLimitTick]_vars

SpecSlc == VcStart /\ [][SlcTick]_vars

SpecTargets == VcStart /\ [][TargetTick]_vars

SpecDecel == VcStart /\ [][DecelTick]_vars

SpecSharpCurve == VcStart /\ [][SharpCurveTick]_vars

SpecLowered == VcStart /\ [][LoweredTick]_vars

SpecVision == VcStart /\ [][VisionTick]_vars

\* The module-level functions and pure steps, called on their own
SpecSource == VcStart /\ [][ProbeSource]_vars

PullawayStart ==
  /\ MpcInit /\ mode = "acc" /\ now = 2 * LOG_PERIOD /\ VcInit
  /\ probe \in {[fn |-> "none", in |-> in] : in \in PullawayInputs}

SpecPullaway == PullawayStart /\ [][ProbePullaway]_vars

JerkStart ==
  /\ MpcInit /\ mode = "acc" /\ now = 2 * LOG_PERIOD /\ VcInit
  /\ probe \in {[fn |-> "none", in |-> in] : in \in JerkInputs}

SpecJerk == JerkStart /\ [][ProbeJerk]_vars

LeadStart ==
  /\ MpcInit /\ mode = "acc" /\ now = 2 * LOG_PERIOD /\ VcInit
  /\ probe \in {[fn |-> "none", in |-> in] : in \in LeadInputs}

SpecLead == LeadStart /\ [][ProbeLead]_vars

FollowStart ==
  /\ MpcInit /\ mode = "acc" /\ now = 2 * LOG_PERIOD /\ VcInit
  /\ probe \in {[fn |-> "none", in |-> in] : in \in FollowInputs}

SpecFollow == FollowStart /\ [][ProbeFollow]_vars

----------------------------------------------------------------------------
\* Properties of the MPC

\* The trajectory a caller reads is the all-zero one
ZeroTrajectory ==
  /\ v_solution = ZeroStages /\ a_solution = ZeroStages /\ j_solution = ZeroControls
  /\ x_sol = ZeroStates /\ u_sol = ZeroControls /\ prev_a = ZeroStages

\* C1: after every update() whose solve() returned a nonzero status, reset() has run
\* before the return: v_solution, a_solution, j_solution, x_sol, u_sol and prev_a are
\* all zero, and the next tick starts from the reset state (zero initial condition,
\* zero parameters, every solver stage seeded with the zero state).
C1_FailedSolveResets ==
  (last_call = "update" /\ solve_ret # 0)
    => /\ ZeroTrajectory
       /\ x0 = ZeroX /\ params = ZeroParams /\ solver_x = ZeroStates

\* A failed solve on a tick that was given a nonzero obstacle and warned about it
C1_Witness ==
  /\ last_call = "update" /\ solve_ret # 0
  /\ solver_p[0][3] > 0 /\ warnings # <<>>
  /\ ZeroTrajectory

\* C2: after reset(), from any reachable state, v_solution, a_solution, j_solution,
\* x_sol, u_sol, prev_a, params and x0 are all zero, every solver stage is seeded with
\* the zero state and solution_status is 0; and a reset() called on the state a
\* reset() left changes nothing.
C2_ResetZeroesAndIsIdempotent ==
  /\ [](last_call = "reset"
          => /\ ZeroTrajectory
             /\ params = ZeroParams /\ x0 = ZeroX /\ solver_x = ZeroStates
             /\ solution_status = 0)
  /\ [][(last_call = "reset" /\ Reset) => UNCHANGED vars]_vars

\* A reset() of an MPC that has solved a tick since it was built
C2_Witness ==
  /\ last_call = "reset" /\ now \notin StartTimes
  /\ x0 = ZeroX /\ x_sol = ZeroStates /\ solution_status = 0

\* C3 (as the claim states it): two warnings are never less than 5 s apart
C3_WarningsFiveSecondsApart ==
  Len(warnings) >= 2 => warnings[1] - warnings[2] >= LOG_PERIOD

\* C4 (as the claim states it): after a tick whose solve failed, the status read is
\* nonzero or the crash counter is
C4_FailureObservable ==
  (last_call = "update" /\ solve_ret # 0) => (solution_status # 0 \/ crash_cnt # 0)

\* C4 (what the code does): after a tick whose solve failed, the status read is 0, as
\* it is after a tick that succeeded, and the crash counter is 0 or 1, the forward-
\* collision check of that tick alone; the failure shows only as the all-zero trajectory.
C4_FailureReadsAsZeroStatus ==
  (last_call = "update" /\ solve_ret # 0)
    => /\ solution_status = 0
       /\ crash_cnt \in {0, 1}
       /\ x_sol = ZeroStates /\ u_sol = ZeroControls

\* A failed solve after which neither the status nor the crash counter shows it
C4_Witness ==
  /\ last_call = "update" /\ solve_ret # 0
  /\ solution_status = 0 /\ crash_cnt = 0

\* C5: after every update(), parameter 2 of every stage is the minimum of that stage's
\* obstacle candidates (lead0, lead1 and, in ACC mode, the cruise obstacle), and in ACC
\* mode the source names a candidate that attains the minimum at stage 0.
C5_MinObstacleBinds ==
  last_call = "update"
    => /\ \A i \in Stages :
            /\ Len(obstacles[i]) = IF mode = "acc" THEN 3 ELSE 2
            /\ \A k \in 1..Len(obstacles[i]) : solver_p[i][3] <= obstacles[i][k]
            /\ \E k \in 1..Len(obstacles[i]) : solver_p[i][3] = obstacles[i][k]
       /\ mode = "acc"
            => \E k \in 1..3 : /\ source = SOURCES[k]
                               /\ \A m \in 1..3 : obstacles[0][k] <= obstacles[0][m]

\* An ACC tick on which lead1 is nearer than lead0 and than the cruise obstacle
C5_Witness ==
  /\ last_call = "update" /\ mode = "acc" /\ source = "lead1"
  /\ obstacles[0][2] < obstacles[0][1] /\ obstacles[0][2] < obstacles[0][3]
  /\ solver_p[0][3] = obstacles[0][2]

\* C14: set_cur_state(v, a) stores v and a in x0 and leaves x0[0]; when v differs
\* from the speed x0 held by more than SPEED_JUMP (2 m/s) every stage of the solver is
\* set to the new x0, and otherwise no stage is touched.
C14_SpeedJumpSeedsEveryStage ==
  [][last_call' = "set_cur_state"
       => /\ \E e \in EgoStates : x0' = <<x0[1], e[1], e[2]>>
          /\ IF Abs(x0'[2] - x0[2]) > SPEED_JUMP
             THEN solver_x' = [i \in Stages |-> x0']
             ELSE solver_x' = solver_x
    ]_vars

\* Stages seeded at 10 m/s by a jump from rest, and left as they were by a later
\* change of exactly 2 m/s to 12 m/s
C14_Witness ==
  /\ last_call = "set_cur_state" /\ x0 = <<0, 1200, -100>>
  /\ solver_x = [i \in Stages |-> <<0, 1000, 0>>]

\* C15: after every update() the crash counter is the number of consecutive ticks,
\* the latest included, on which the forward-collision condition held, and 0 after a
\* tick on which it did not hold
C15_CrashCountsConsecutiveTicks ==
  last_call = "update" => crash_cnt = fcw_run

\* The trajectory read after the latest update() comes within the safe gap of
\* candidate k (1 = lead0, 2 = lead1) at some stage
SafeGapViolated(k) ==
  \E i \in Stages :
    (obstacles[i][k] - get_safe_obstacle_distance(x_sol[i][2], solver_p[i][5]))
      - x_sol[i][1] < 0

ShapedFrom(sol_x) ==
  DynamicCosts(sol_x, [i \in Stages |-> solver_p[i][3]], [i \in Stages |-> solver_p[i][5]],
               shaping.lead_xv, shaping.base_cost_weights, shaping.acceleration_jerk_factor)

\* C17: in every update() the stage costs and lead-constraint penalties the solver
\* holds when solve() is invoked are those computed from the trajectory cost shaping
\* found in x_sol and from this tick's parameters; that trajectory is the one the
\* previous tick left (not this tick's solution): all zero at the first update(),
\* after a reset() and after a failed solve, the solved trajectory after a successful
\* solve, and no other entry point touches it
C17_CostsFromPreviousTick ==
  /\ [](last_call = "update" => solved_cost = ShapedFrom(shaping.x_sol))
  /\ [][/\ last_call' = "update" =>
            /\ shaping'.x_sol = x_sol
            /\ (last_call \in {"init", "reset"} \/ (last_call = "update" /\ solve_ret # 0))
                 => x_sol = ZeroStates
            /\ (last_call = "update" /\ solve_ret = 0) => x_sol = solver_x
       /\ last_call' \in {"set", "set_cur_state"} => x_sol' = x_sol]_vars

\* A second update() after a successful one: the costs the solver solved with come
\* from the first tick's trajectory and differ from what the trajectory just solved
\* would have given
C17_Witness ==
  /\ last_call = "update" /\ solve_ret = 0
  /\ shaping.x_sol # ZeroStates /\ shaping.x_sol # x_sol
  /\ solved_cost = ShapedFrom(shaping.x_sol)
  /\ solved_cost # ShapedFrom(x_sol)

\* C29: the reset() a failed solve triggers leaves the configuration as it was: the
\* accel limits of set_accel_limits and the jerk multipliers and base cost weights of
\* the last set_weights are the same after the tick as before it
C29_ResetKeepsConfiguration ==
  [][(last_call' = "update" /\ solve_ret' # 0)
       => /\ accel_limits' = accel_limits
          /\ jerk_factors' = jerk_factors
          /\ base_cost_weights' = base_cost_weights
    ]_vars

\* The pullaway and the approach multiplier of stage i of the latest cost shaping,
\* in 1/1000
PullawayMultiplier(i) ==
  dynamic_lead_pullaway_distance_cost(
    shaping.x_sol[i][1], shaping.x_sol[i][2], shaping.lead_xv[i][1], shaping.lead_xv[i][2],
    solver_p[i][5], 10, 2000) \div 10

ApproachMultiplier(i) ==
  soft_approach_distance_factor(
    shaping.lead_xv[i][1], shaping.x_sol[i][1], shaping.x_sol[i][2], shaping.lead_xv[i][2],
    solver_p[i][5])

\* C27: at every stage the distance-cost weight pushed to the solver is the base
\* distance cost times clamp(pullaway multiplier * approach multiplier, 1.0, 1.3); with
\* both multipliers 1 it is the base distance cost, in ACC as in blended mode
C27_DistanceWeightIsBaseTimesClampedFactor ==
  last_call = "update" =>
    \A i \in Controls :
      solved_cost[i].x_obstacle
        = shaping.base_cost_weights[1]
            * Clip((PullawayMultiplier(i) * ApproachMultiplier(i)) \div 1000,
                   1000, COMBINED_CAP)

----------------------------------------------------------------------------
\* Properties of FrogPilotVCruise

\* update() has returned a speed
Returned == branch \in {"standstill", "stop", "targets"}

\* C6 (as the claim states it): the speed returned is at least CRUISING_SPEED unless
\* forcing_stop is set
C6_FloorUnlessForcingStop ==
  Returned => (vc_ret >= CRUISING_SPEED \/ forcing_stop)

\* C6 (amended): on every tick that takes neither the forced-standstill nor the
\* forced-stop branch, the speed returned is the requested v_cruise or lies above
\* CRUISING_SPEED, so it is at least the smaller of CRUISING_SPEED and v_cruise; and
\* forcing_stop is then off.
C6_FloorOrRequested ==
  branch = "targets"
    => /\ vc_ret = vc_in.v_cruise \/ vc_ret > CRUISING_SPEED
       /\ vc_ret >= Min(CRUISING_SPEED, vc_in.v_cruise)
       /\ ~forcing_stop

\* A speed limit at or below CRUISING_SPEED left out of the arbitration
C6_Witness ==
  /\ branch = "targets" /\ vc_in.speed_limit_controller
  /\ slc_target > 0 /\ slc_target <= CRUISING_SPEED
  /\ vc_ret = vc_in.v_cruise /\ vc_ret > CRUISING_SPEED

\* C7 (as the claim states it): from one forced-stop tick to the next the speed
\* returned strictly decreases
C7_StrictlyDecreasing ==
  [][(branch = "stop" /\ branch' = "stop") => vc_ret' < vc_ret]_vars

\* C7 (amended): on every forced-stop tick the tracked distance is the previous one
\* less v_ego * DT_MDL, floored at 0 and not refreshed from the model, so it never
\* grows; the speed returned is the smaller of the whole m/s of tracked distance /
\* PLANNER_TIME and the requested v_cruise; and from one forced-stop tick to the next
\* it does not rise unless the requested v_cruise does.
C7_ForcedStopSpeed ==
  [][branch' = "stop"
       => /\ tracked_model_length' = Max(tracked_model_length - vc_in'.v_ego, 0)
          /\ tracked_model_length' <= tracked_model_length
          /\ vc_ret' = Min((tracked_model_length' \div 80000) * 400, vc_in'.v_cruise)
          /\ vc_ret' <= vc_in'.v_cruise
          /\ (branch = "stop" /\ vc_in'.v_cruise <= vc_in.v_cruise) => vc_ret' <= vc_ret
    ]_vars

\* A forced stop past its first tick, the car moving, with distance consumed and the
\* speed below the requested one
C7_Witness ==
  /\ branch = "stop" /\ forcing_stop /\ force_stop_timer > FORCE_STOP_HOLD
  /\ vc_in.v_ego > 0
  /\ tracked_model_length < vc_in.model_length
  /\ vc_ret < vc_in.v_cruise

\* C8: the forced-stop branch gives the speed returned only on a tick that ends
\* FORCE_STOP_HOLD (1 s) consecutive ticks on which the stop trigger held; and after
\* a tick on which the trigger did not hold, the hold timer is 0.
C8_ForcedStopHeldOneSecond ==
  /\ branch = "stop" => trigger_held >= FORCE_STOP_HOLD
  /\ trigger_held = 0 => force_stop_timer = 0
  /\ force_stop_timer <= trigger_held \/ trigger_held = FORCE_STOP_HOLD

\* The first forced-stop tick of a trigger held for FORCE_STOP_HOLD ticks, no override
\* running
C8_Witness ==
  /\ branch = "stop" /\ force_stop_timer = FORCE_STOP_HOLD
  /\ trigger_held = FORCE_STOP_HOLD
  /\ override_force_stop_timer = 0 /\ ~override_force_stop /\ override_cond_age = -1
  /\ vc_in.stop_light_detected

\* C9 (as the claim states it): the forced-stop branch is not taken while an override
\* condition that suppressed the stop holds, nor in the 10 s after it cleared
C9_SuppressedTenSecondsAfterClear ==
  branch = "stop" => override_cond_age = -1

\* A speed limit change is proposed to the next tick and nothing answers it
PendingUnanswered ==
  /\ vc_in.speed_limit_controller /\ vc_in.speed_limit_confirmation
  /\ vc_in.speed_limit_confirmation_lower /\ vc_in.speed_limit_confirmation_higher
  /\ ~vc_in.accelPressed /\ ~vc_in.decelPressed /\ ~vc_in.SLCConfirmed

\* C10 (as the claim states it): a pending change is denied after 30 ticks
C10_DeniedAfterThirtyTicks ==
  speed_limit_changed => speed_limit_timer <= 30

\* C10 (amended): a pending speed-limit change that nothing answers, with the
\* confirmation of its direction on, stays pending while speed_limit_timer is below
\* 30 s, that is for SPEED_LIMIT_TIMEOUT = 600 ticks, and is denied by timeout on
\* the next tick, which clears the flag and the timer and keeps slc_target.
C10_DeniedAfterThirtySeconds ==
  /\ [](speed_limit_timer <= SPEED_LIMIT_TIMEOUT)
  /\ [][(/\ speed_limit_changed /\ ~SLCConfirmed /\ PendingUnanswered'
         /\ Abs(slc_target - vc_in'.desired_speed_limit) > SPEED_LIMIT_STEP)
          => IF speed_limit_timer >= SPEED_LIMIT_TIMEOUT
             THEN /\ slc_resolution' = "denied"
                  /\ ~speed_limit_changed' /\ speed_limit_timer' = 0
                  /\ slc_target' = slc_target
             ELSE /\ slc_resolution' = "pending"
                  /\ speed_limit_changed' /\ speed_limit_timer' = speed_limit_timer + 1
                  /\ slc_target' = slc_target
       ]_vars

\* A change denied with no decel input: by the timeout
C10_Witness ==
  /\ slc_resolution = "denied" /\ ~vc_in.decelPressed
  /\ ~speed_limit_changed /\ speed_limit_timer = 0 /\ slc_target # vc_in.desired_speed_limit

\* C11: a tick that resolves a pending speed-limit change as accepted, denied or
\* auto-passed ends with speed_limit_changed cleared and speed_limit_timer 0; and
\* speed_limit_timer is nonzero only while speed_limit_changed is set.
C11_ResolutionClearsFlagAndTimer ==
  /\ slc_resolution \in {"accepted", "denied", "passed"}
       => ~speed_limit_changed /\ speed_limit_timer = 0
  /\ speed_limit_timer # 0 => speed_limit_changed

\* A change that had been pending is auto-passed once its confirmation is no longer
\* asked for
C11_Witness ==
  /\ slc_resolution = "passed" /\ pending_before > 0
  /\ ~speed_limit_changed /\ speed_limit_timer = 0
  /\ slc_target = vc_in.desired_speed_limit

\* The targets the latest tick arbitrated, read back from the fields it left:
\* mtsc_target and vtsc_target carry the cluster offset added after the arbitration
ClusterOffset == Max(KphToMs(vc_in.vCruiseCluster), vc_in.v_cruise) - vc_in.v_cruise

ArbitratedTargets ==
  LET speed_limit == Max(overridden_speed, slc_target)
                       - (Max(vc_in.vEgoCluster, vc_in.v_ego) - vc_in.v_ego)
  IN  IF vc_in.speed_limit_controller
      THEN {mtsc_target - ClusterOffset, speed_limit, vtsc_target - ClusterOffset}
      ELSE {mtsc_target - ClusterOffset, vtsc_target - ClusterOffset}

\* C12 (as the claim states it): outside the forced branches the speed returned is
\* the least of the targets above CRUISING_SPEED, the others having no effect, and
\* the requested v_cruise when there is none
C12_MinOfTargetsAboveFloor ==
  branch = "targets"
    => LET above == {t \in ArbitratedTargets : t > CRUISING_SPEED}
       IN  IF above = {} THEN vc_ret = vc_in.v_cruise
           ELSE vc_ret \in above /\ \A t \in above : vc_ret <= t

\* C12 (amended): outside the forced branches the speed returned is the least of the
\* targets after each target at or below CRUISING_SPEED has been replaced by the
\* requested v_cruise: the least of the targets above CRUISING_SPEED, and no more than
\* v_cruise when some target is at or below it; v_cruise when none is above.
C12_MinOfTargetsOrRequested ==
  branch = "targets"
    => LET above == {t \in ArbitratedTargets : t > CRUISING_SPEED}
           cands == above \cup (IF above # ArbitratedTargets THEN {vc_in.v_cruise} ELSE {})
       IN  /\ vc_ret \in cands /\ \A t \in cands : vc_ret <= t
           /\ above = {} => vc_ret = vc_in.v_cruise

\* The speed limit (the driver's override of it) is the only target above
\* CRUISING_SPEED, below the map turn and vision turn targets, and is returned
C12_Witness ==
  /\ branch = "targets" /\ vc_in.speed_limit_controller
  /\ override_slc /\ overridden_speed > slc_target
  /\ vc_ret = overridden_speed - (Max(vc_in.vEgoCluster, vc_in.v_ego) - vc_in.v_ego)
  /\ vc_ret > CRUISING_SPEED
  /\ vc_ret < mtsc_target - ClusterOffset /\ vc_ret < vtsc_target - ClusterOffset

\* The vision turn controller ran on the latest tick, on a road with no curvature
\* and no curve coming up inside the lookahead distance
VisionOnStraight ==
  /\ branch \in {"standstill", "stop", "targets"}
  /\ vc_in.vision_turn_controller /\ vc_in.v_ego > CRUISING_SPEED /\ vc_in.longActive
  /\ vc_in.road_curvature = 0
  /\ ~(vc_in.upcoming_curve_dist < LOOKAHEAD_DIST
         /\ vc_in.upcoming_curvature > UPCOMING_CURVATURE_MIN)

\* C13: with the vision turn controller active on a road with no curvature and no
\* curve coming up, the vision turn target is the requested v_cruise, whatever v_ego
C13_StraightRoadKeepsCruiseTarget ==
  VisionOnStraight => vtsc_target - ClusterOffset = vc_in.v_cruise

\* C31: with the confirmation or the change alert on and a nonzero confirmed target,
\* a tick on which the advisor reports no limit (<= 1) leaves slc_target at its last
\* confirmed value and enters no pending state
C31_NoLimitKeepsTarget ==
  [][(/\ (vc_in'.show_speed_limits \/ vc_in'.speed_limit_controller)
      /\ (vc_in'.speed_limit_changed_alert \/ vc_in'.speed_limit_confirmation)
      /\ slc_target # 0
      /\ vc_in'.desired_speed_limit <= SPEED_LIMIT_STEP)
       => /\ slc_target' = slc_target
          /\ ~speed_limit_changed' /\ speed_limit_timer' = 0
    ]_vars

\* The advisor reported no limit while a change was pending: the pending state is
\* left and the confirmed target kept
C31_Witness ==
  /\ branch # "none" /\ vc_in.desired_speed_limit <= SPEED_LIMIT_STEP
  /\ (vc_in.speed_limit_changed_alert \/ vc_in.speed_limit_confirmation)
  /\ pending_before > 0 /\ slc_resolution = "same"
  /\ slc_target # 0 /\ ~speed_limit_changed /\ speed_limit_timer = 0

\* C32: on every tick with the vision turn controller active the vision-turn target
\* it stores lies within [CRUISING_SPEED, v_cruise]; a sharp upcoming curve never
\* drives it to or below CRUISING_SPEED, where the final arbitration would ignore it
C32_TargetWithinCruisingBand ==
  (branch = "targets" /\ VisionTurnActive(vc_in))
    => /\ vtsc_target_prev > CRUISING_SPEED
       /\ vtsc_target_prev <= vc_in.v_cruise

\* C33: on every tick, after any sequence of earlier ticks, the speed update() returns
\* is no more than the cruise speed v_cruise requested on that tick
C33_ReturnWithinRequested ==
  branch # "none" => vc_ret <= vc_in.v_cruise

\* C30: once a pending speed-limit change has been denied, by driver decel input or by
\* timeout, the same proposed limit does not become pending again: speed_limit_changed
\* stays false while the advisor's desired speed limit stays the same, on the tick
\* after the denial to begin with
C30_DeniedLimitStaysDenied ==
  [][(/\ slc_resolution = "denied"
      /\ vc_in'.desired_speed_limit = vc_in.desired_speed_limit)
       => ~speed_limit_changed'
    ]_vars

\* C26: while the vision turn controller stays active, current_decel stays within
\* [0, MAX_DECEL] and moves by at most MAX_JERK * DT_MDL from one tick to the next, and
\* the vision-turn target of a tick is min(v_ego - current_decel * DT_MDL, smoothed
\* curvature target)
C26_DecelBoundedAndJerkLimited ==
  /\ [](current_decel >= 0 /\ current_decel <= MAX_DECEL)
  /\ [][VisionTurnActive(vc_in')
          => /\ Abs(current_decel' - current_decel) <= MAX_JERK_DT
             /\ vtsc_target_prev'
                  = Min(vc_in'.v_ego - current_decel' \div TICKS_PER_S,
                        SmoothedTurnTarget(vc_in'))
             /\ vtsc_target' - ClusterOffset' = vtsc_target_prev'
    ]_vars

\* The car has stayed above the speed of the curve until current_decel reached
\* MAX_DECEL
C26_Witness ==
  /\ branch = "targets" /\ VisionTurnActive(vc_in) /\ vc_ticks = MaxVisionTicks
  /\ current_decel = MAX_DECEL /\ vtsc_target_prev < vc_in.v_ego

\* The tick in went into with slc_target confirmed detects a change of more than one
\* unit
ChangeDetected(in) ==
  /\ in.speed_limit_controller
  /\ (in.speed_limit_changed_alert \/ in.speed_limit_confirmation) /\ slc_target # 0
  /\ Abs(slc_target - in.desired_speed_limit) > SPEED_LIMIT_STEP
  /\ in.desired_speed_limit > SPEED_LIMIT_STEP

\* The confirmation of the direction of that change is not asked for
DirectionUnconfirmed(in) ==
  IF in.desired_speed_limit < slc_target
  THEN ~in.speed_limit_confirmation_lower ELSE ~in.speed_limit_confirmation_higher

\* C25: a detected change whose direction asks for no confirmation is adopted as
\* slc_target on that same tick and not left pending, unless driver decel input or an
\* elapsed timeout denies it on that tick; accept takes precedence over deny
C25_UnconfirmedDirectionPasses ==
  [][LET in == vc_in'
         accept == (in.accelPressed /\ in.longActive) \/ in.SLCConfirmed \/ SLCConfirmed
         deny == (in.decelPressed /\ in.longActive)
                   \/ speed_limit_timer >= SPEED_LIMIT_TIMEOUT
     IN  /\ (ChangeDetected(in) /\ accept)
              => slc_target' = in.desired_speed_limit /\ ~speed_limit_changed'
         /\ (ChangeDetected(in) /\ DirectionUnconfirmed(in) /\ ~accept)
              => /\ ~speed_limit_changed' /\ speed_limit_timer' = 0
                 /\ slc_target' = IF deny THEN slc_target ELSE in.desired_speed_limit
    ]_vars

\* A change whose direction asks for no confirmation was adopted on the tick that
\* detected it, with nothing pending before and no answer from the driver
C25_Witness ==
  /\ slc_resolution = "passed" /\ pending_before = 0
  /\ vc_in.speed_limit_confirmation
  /\ ~vc_in.accelPressed /\ ~vc_in.decelPressed /\ ~vc_in.SLCConfirmed
  /\ slc_target = vc_in.desired_speed_limit /\ ~speed_limit_changed

\* The tick in went into with slc_target confirmed proposes a limit more than one unit
\* away, its direction asks for confirmation, and neither accel nor the confirm
\* signal answers
ChangeLeftPending(in) ==
  /\ in.speed_limit_controller /\ in.speed_limit_confirmation /\ slc_target # 0
  /\ in.desired_speed_limit > SPEED_LIMIT_STEP
  /\ \/ (slc_target - in.desired_speed_limit > SPEED_LIMIT_STEP
          /\ in.speed_limit_confirmation_lower)
     \/ (in.desired_speed_limit - slc_target > SPEED_LIMIT_STEP
          /\ in.speed_limit_confirmation_higher)
  /\ ~(in.accelPressed /\ in.longActive) /\ ~in.SLCConfirmed /\ ~SLCConfirmed

C23_AcceleratorOverridesStandstill ==
  (/\ branch # "none"
   /\ vc_in.force_standstill /\ vc_in.standstill /\ vc_in.enabled
   /\ (vc_in.gasPressed \/ vc_in.accelPressed))
  => vc_ret # -400

\* C22: update() returns a speed without raising for every road curvature, also when
\* the current curvature is below the 1e-9 floor while a curve is coming up inside the
\* lookahead distance
C22_UpdateNeverRaises ==
  raised = ""

----------------------------------------------------------------------------
\* Properties of the module-level functions and pure steps

\* C18: in ACC mode with neither lead valid the source chosen by update() is
\* 'cruise', for every ego speed, requested cruise speed and follow time of the
\* personality table
C18_NoLeadsSourceIsCruise ==
  probe.fn = "source" => probe.out = "cruise"

\* The fastest ego speed explored with the longest follow time: both leads are the
\* placeholder 50 m ahead at ego speed + 10 m/s and the cruise obstacle is nearer
C18_Witness ==
  /\ probe.fn = "source" /\ probe.v_ego = 250 * MaxSpeedSteps /\ probe.t_follow = 175
  /\ probe.lead_xv_0 = <<5000, probe.v_ego + 1000>>
  /\ probe.x_obstacles_0[3] < probe.x_obstacles_0[1]
  /\ probe.out = "cruise"

\* C20: dynamic_lead_pullaway_distance_cost returns exactly base_cost when the gap
\* excess is <= 0 or the lead is not faster than ego, and never more than
\* 1.3 * base_cost, whatever ceiling is configured
C20_PullawayCappedAndNeutral ==
  probe.fn = "pullaway" =>
    /\ (probe.gap_excess <= 0 \/ probe.speed_diff <= 0) => probe.out = probe.in.base_cost * 1000
    /\ probe.out <= PULLAWAY_CAP * probe.in.base_cost

\* A lead pulling away well beyond both margins with a ceiling of 2.0 configured:
\* the cost is 1.3 times the base cost
C20_Witness ==
  /\ probe.fn = "pullaway" /\ probe.in.pullaway_max_factor = 2000
  /\ probe.gap_excess > PULLAWAY_DIST_MARGIN /\ probe.speed_diff > PULLAWAY_SPEED_MARGIN
  /\ probe.in.base_cost = 30 /\ probe.out = PULLAWAY_CAP * 30

\* C19: with the time taper on and speed_factor = 1 every entry of the jerk-cost
\* array lies within [low_jerk_cost, 1.2 * base_jerk_cost], for every base jerk cost
\* 12.0 * acceleration-jerk multiplier
C19_JerkCostsWithinBand ==
  probe.fn = "jerk" =>
    \A i \in Stages :
      /\ probe.out[i] >= LOW_JERK_COST
      /\ probe.out[i] <= (TAPER_START * probe.base_jerk_cost) \div 1000

\* C21: for a fixed follow time >= 0 and speeds >= 0, desired_follow_distance strictly
\* increases with the ego speed and strictly decreases with the lead speed; ego
\* 20 m/s, lead 15 m/s and follow time 1.45 s give 70 m
C21_FollowDistanceMonotone ==
  probe.fn = "follow" =>
    /\ probe.out_ego_up > probe.out
    /\ probe.out_lead_up < probe.out
    /\ (probe.v_ego = 2000 /\ probe.v_lead = 1500 /\ probe.in.t_follow = T_FOLLOW_STANDARD)
         => probe.out = 7000

\* The worked example of the claim, with both neighbours on the right side of it
C21_Witness ==
  /\ probe.fn = "follow" /\ probe.v_ego = 2000 /\ probe.v_lead = 1500
  /\ probe.in.t_follow = T_FOLLOW_STANDARD /\ probe.out = 7000
  /\ probe.out_ego_up > 7000 /\ probe.out_lead_up < 7000

\* C28: for every lead input the trajectory process_lead returns has a non-negative
\* position at the first stage and a speed >= 0 at every stage, and a negative reported
\* range is never passed through unchanged
C28_LeadTrajectoryNonNegative ==
  probe.fn = "lead" =>
    /\ probe.out[0][1] >= 0
    /\ \A i \in Stages : probe.out[i][2] >= 0
    /\ probe.in.status /\ probe.in.dRel < 0 => probe.out[0][1] # probe.in.dRel

====
